---- MODULE Spec2Model ----
(***************************************************************************)
(* Verification model of the kona fault-proof program (moongate fork):     *)
(*   - the FPVM client epilogue            (bin/client/src/kona.rs)        *)
(*   - the zkVM client program             (bin/programs/zkvm-client)      *)
(*       main, InMemoryOracle (get, get_exact, verify), blob providers     *)
(* Hash functions are modelled symbolically: a digest is a 32-byte word    *)
(* split into its first byte (top) and the remaining 31 bytes (body); the  *)
(* body is the term <<algorithm, preimage>>, so that two digests agree on  *)
(* their body exactly when algorithm and preimage agree (collision         *)
(* resistance), while the first byte is an ordinary byte.                  *)
(***************************************************************************)
EXTENDS Integers, Sequences, FiniteSets, TLC

VARIABLES
    \* ---- FPVM client (bin/client/src/kona.rs) ----
    boot,           \* BootInfo: [l2_claim_block, l2_claim]
    fpvm_pc,        \* position of main: prologue, derive, epilogue, done
    fpvm_out,       \* what produce_output returned: [number, output_root] or NoValue
    fpvm_stdout,    \* lines written with kona_common::io::print, oldest first
    fpvm_exit,      \* arguments of the calls of kona_common::io::exit: <<>> or <<1>>
    fpvm_result     \* value main returned: "none", "Ok", "Err"

fpvmVars == <<boot, fpvm_pc, fpvm_out, fpvm_stdout, fpvm_exit, fpvm_result>>

VARIABLES
    \* ---- zkVM client (bin/programs/zkvm-client/src/main.rs, oracle.rs) ----
    cache,          \* InMemoryOracle.cache: function PreimageKey -> bytes
    zk_pc,          \* position of main: input, verify, run, epilogue, done, panic
    pending,        \* verify(): keys of cache.iter() not yet visited
    blobs,          \* verify(): the local map commitment -> Blob
    verify_result,  \* "none" (not returned), "Ok", "Err", "panic"
    reads,          \* number of get / get_exact calls served by the oracle
    last_get,       \* last (key, value) a get returned, or NoValue
    last_read,      \* last get / get_exact call and its outcome, or NoValue
    zk_out          \* (number, output_root) computed by the executor, or NoValue

zkVars == <<cache, zk_pc, pending, blobs, verify_result, reads, last_get, last_read,
           zk_out>>

VARIABLES
    \* ---- OracleBlobProvider::get_blob (zkvm-client/src/l1/blob_provider.rs) ----
    bp_variant,         \* "InMemory" or "Caching": the oracle type of the impl
    bp_oracle,          \* what the oracle answers: function PreimageKey -> bytes
    bp_req,             \* [hash, index, timestamp]: blob_hash and block_ref.timestamp
    bp_pc,              \* start, commitment, elements, return, done
    bp_status,          \* "running", "Ok", "Err", "panic_assert", "panic_copy"
    bp_blob_req_meta,      \* the 48-byte request descriptor
    bp_commitment,         \* the 48-byte buffer
    bp_field_element_key,  \* the 80-byte buffer
    bp_i,               \* loop variable i
    bp_blob,               \* the blob under construction
    bp_ops,             \* channel operations performed so far, oldest first
    bp_written,         \* slots of blob written so far, oldest first
    bp_hint_ret         \* last call of a ZKVM hint writer: [writer, hint, ret], or NoValue

bpVars == <<bp_variant, bp_oracle, bp_req, bp_pc, bp_status, bp_blob_req_meta,
            bp_commitment, bp_field_element_key, bp_i, bp_blob, bp_ops, bp_written,
            bp_hint_ret>>

VARIABLES
    \* ---- StatelessL2BlockExecutor (crates/executor/src/lib.rs) ----
    ex_config,      \* RollupConfig: [regolith_time, canyon_time, ecotone_time], each an
                    \* Option (<<>> or <<t>>)
    ex_parent,      \* state.database.parent_block_header(): [header, seal]
    ex_leftover,    \* transactions a failed call committed to the State (never merged)
    ex_pre,         \* pre-block steps applied to the State and not merged since
    ex_pc,          \* "idle" (no call running), "loop", "panicked"
    ex_payload,     \* the payload of the running call, or NoValue
    ex_block_env,   \* initialized_block_env of the running call, or NoValue
    ex_transactions,            \* the decoded transactions of the running call
    ex_i,           \* position of the transaction loop, from 1
    ex_cumulative_gas_used,     \* the local of that name
    ex_executed,    \* transactions the running call has run through transact_commit
    ex_gas,         \* for each of them, result.gas_used()
    ex_loaded,      \* for each of them, what load_cache_account(deposit.from)
                    \* answered before the transaction ran (NoValue: it was not called)
    ex_receipts,    \* the local receipts: one receipt per executed transaction
    ex_status,      \* last execute_payload: "none", "running", "Ok", "Err", "panic"
    ex_error,       \* message of the Err, "" otherwise
    ex_prev_parent, \* parent_block_header() when the last call started, or NoValue
    ex_returned,    \* the header the last call returned, or NoValue
    ex_calls,       \* number of calls of execute_payload so far
    ex_handed,      \* number of transactions the payloads of these calls carried
    ex_failed,      \* TRUE once a call of execute_payload has returned Err
    ex_output,      \* compute_output_root since the last execute_payload: its inputs
                    \* and its result, or NoValue
    ex_stdout       \* lines written to stdout with println!, oldest first

exVars == <<ex_config, ex_parent, ex_leftover, ex_pre, ex_pc, ex_payload, ex_block_env,
            ex_transactions, ex_i, ex_cumulative_gas_used, ex_executed, ex_loaded, ex_gas,
            ex_receipts, ex_status, ex_error, ex_prev_parent, ex_returned, ex_calls, ex_handed, ex_failed,
            ex_output, ex_stdout>>

VARIABLES
    \* ---- CalldataSource (crates/derive/src/sources/calldata.rs) ----
    cd_txs,         \* the transactions of the L1 block block_ref.hash names
    cd_pc,          \* "off" (no source), "ready" (constructed)
    cd_self,        \* the fields that change: [calldata, open]
    cd_last,        \* what the last call of next() returned, or NoValue
    cd_yielded,     \* the items next() has returned with Ok, oldest first
    cd_failures,    \* calls of next() during which the chain provider failed
    cd_asked        \* calls of next() during which the chain provider was asked

cdVars == <<cd_txs, cd_pc, cd_self, cd_last, cd_yielded, cd_failures, cd_asked>>

VARIABLES
    \* ---- host (bin/host/src/lib.rs) ----
    hs_mode,        \* "off", "server" (start_server), "native"
                    \* (start_server_and_native_client)
    hs_exec,        \* cfg.exec(): <<>> or <<path>>
    hs_pc,          \* position of the entry function: "setup", "serving", "joining",
                    \* "returned", "unwound"
    hs_ret,         \* what the entry function returned, or NoValue
    hs_start,       \* how PreimageServer::start ended: "none" (not yet), "Ok", "Err",
                    \* "panic"
    hs_server_task, \* the server task: not spawned, running, or how it ended
    hs_program_task,    \* the client task: not spawned, starting, waiting for the
                        \* child, or how it ended
    hs_status,      \* exit status of the child process: <<>> (none yet) or <<status>>
    hs_seen         \* the two tasks as they were when try_join! returned, or NoValue

hsVars == <<hs_mode, hs_exec, hs_pc, hs_ret, hs_start, hs_server_task, hs_program_task,
            hs_status, hs_seen>>

VARIABLES
    \* ---- CachingOracle (constructed in bin/client/src/kona.rs) ----
    lru_pc,         \* "off" (no oracle), "ready" (constructed)
    lru_cache,      \* the LRU cache: entries [key, value], most recently used first
    lru_reads,      \* number of requests sent to the oracle reader
    lru_log,        \* the calls of get so far: [key, outcome], oldest first
    lru_last        \* what the last call of get returned, or NoValue

lruVars == <<lru_pc, lru_cache, lru_reads, lru_log, lru_last>>

VARIABLES
    \* ---- the callers of one shared CachingOracle (bin/client/src/kona.rs) ----
    sf_pc,          \* "off" (no oracle), "ready" (constructed and shared)
    sf_cache,       \* the LRU cache, as lru_cache
    sf_inflight,    \* for each key, the number of requests the host has not answered
    sf_callers,     \* for each caller, [pc, key]: "idle", "fetching" or "waiting"
    sf_calls,       \* number of calls of get so far
    sf_last         \* what the call that returned last returned, or NoValue

sfVars == <<sf_pc, sf_cache, sf_inflight, sf_callers, sf_calls, sf_last>>

VARIABLES
    \* ---- the sync loop (bin/sync/src/main.rs) ----
    sy_pc,          \* "off", "step", "pop", "validate", "fetch", "returned"
    sy_cursor,      \* pipeline.cursor.block_info.number
    sy_prepared,    \* the attributes the pipeline holds ready, oldest first
    sy_attributes,  \* the attributes popped in this pass of the loop: <<>> or <<a>>
    sy_valid,       \* what validate said of them: "none", "passed", "failed"
    sy_derived_attributes_count,    \* the local of that name
    sy_rounds,      \* passes of the loop started
    sy_passed,      \* payloads that passed validation
    sy_rejected,    \* payloads that failed validation
    sy_updates,     \* calls of update_cursor
    sy_step_errors, \* calls of pipeline.step() that returned Err
    sy_fetch_errors \* calls of l2_block_info_by_number that returned Err

syVars == <<sy_pc, sy_cursor, sy_prepared, sy_attributes, sy_valid,
            sy_derived_attributes_count, sy_rounds, sy_passed, sy_rejected, sy_updates,
            sy_step_errors, sy_fetch_errors>>

vars == <<fpvmVars, zkVars, bpVars, exVars, cdVars, hsVars, lruVars, sfVars, syVars>>

\* ------------------------------------------------------------------------
\* Bounds
\* ------------------------------------------------------------------------
\* Block numbers range over 0..MaxBlockNumber.
MaxBlockNumber == 2
\* Output roots range over 1..MaxRoot (each number stands for one B256).
MaxRoot == 3

BlockNumbers == 0..MaxBlockNumber
Roots == 1..MaxRoot

NoValue == [none |-> TRUE]

\* ------------------------------------------------------------------------
\* FPVM client: main of bin/client/src/kona.rs
\* ------------------------------------------------------------------------
\* println!("before") and println!("after") of compute_output_root, which the
\* driver's produce_output and the zkVM main call after execute_payload
BeforeLine == <<"before">>
AfterLine == <<"after">>

\* format!("Failed to validate L2 block #{} with output root {}\n", ..)
FailedLine(number, output_root) ==
    <<"Failed to validate L2 block #", number, " with output root ", output_root>>

\* format!("Successfully validated L2 block #{} with output root {}\n", ..)
SuccessLine(number, output_root) ==
    <<"Successfully validated L2 block #", number, " with output root ", output_root>>

FpvmIdle ==
    /\ boot = [l2_claim_block |-> 0, l2_claim |-> 1]
    /\ fpvm_pc = "idle"
    /\ fpvm_out = NoValue
    /\ fpvm_stdout = <<>>
    /\ fpvm_exit = <<>>
    /\ fpvm_result = "none"

FpvmInit ==
    /\ boot \in [l2_claim_block : BlockNumbers, l2_claim : Roots]
    /\ fpvm_pc = "prologue"
    /\ fpvm_out = NoValue
    /\ fpvm_stdout = <<>>
    /\ fpvm_exit = <<>>
    /\ fpvm_result = "none"

\* PROLOGUE: oracle, BootInfo::load(..).await?, providers.
FpvmPrologue ==
    /\ fpvm_pc = "prologue"
    /\ \/ /\ fpvm_pc' = "derive"
          /\ UNCHANGED fpvm_result
       \/ /\ fpvm_pc' = "done"          \* BootInfo::load failed: `?` returns Err
          /\ fpvm_result' = "Err"
    /\ UNCHANGED <<boot, fpvm_out, fpvm_stdout, fpvm_exit>>
    /\ UNCHANGED <<zkVars, bpVars, exVars, cdVars, hsVars, lruVars, sfVars, syVars>>

\* DERIVATION & EXECUTION: DerivationDriver::new(..).await? and
\* driver.produce_output(..).await?; either may fail, otherwise the pair
\* (number, output_root) is whatever the derivation and execution produce.
\* The output root comes from compute_output_root, which prints "before"
\* ahead of the storage-root lookup and "after" behind it: a successful
\* produce_output has printed both, a failed one nothing (it failed earlier)
\* or "before" alone (the lookup failed).
FpvmProduceOutput ==
    /\ fpvm_pc = "derive"
    /\ \/ /\ \E n \in BlockNumbers, r \in Roots :
                fpvm_out' = [number |-> n, output_root |-> r]
          /\ fpvm_stdout' = fpvm_stdout \o <<BeforeLine, AfterLine>>
          /\ fpvm_pc' = "epilogue"
          /\ UNCHANGED fpvm_result
       \/ /\ fpvm_pc' = "done"
          /\ fpvm_result' = "Err"
          /\ fpvm_stdout' \in {fpvm_stdout, fpvm_stdout \o <<BeforeLine>>}
          /\ UNCHANGED fpvm_out
    /\ UNCHANGED <<boot, fpvm_exit>>
    /\ UNCHANGED <<zkVars, bpVars, exVars, cdVars, hsVars, lruVars, sfVars, syVars>>

\* Variant of EpilogueMismatch with && in place of ||.
EpilogueMismatchFlipped(number, output_root) ==
    number # boot.l2_claim_block /\ output_root # boot.l2_claim

\* The condition of the epilogue's `if`.
EpilogueMismatch(number, output_root) ==
    number # boot.l2_claim_block \/ output_root # boot.l2_claim

\* EPILOGUE: on a mismatch print the failure line and exit(1) (exit never
\* returns); otherwise print the success line and return Ok.
FpvmEpilogue ==
    /\ fpvm_pc = "epilogue"
    /\ IF EpilogueMismatch(fpvm_out.number, fpvm_out.output_root)
       THEN /\ fpvm_stdout' = Append(fpvm_stdout,
                                FailedLine(fpvm_out.number, fpvm_out.output_root))
            /\ fpvm_exit' = <<1>>
            /\ UNCHANGED fpvm_result
       ELSE /\ fpvm_stdout' = Append(fpvm_stdout,
                                SuccessLine(fpvm_out.number, fpvm_out.output_root))
            /\ fpvm_result' = "Ok"
            /\ UNCHANGED fpvm_exit
    /\ fpvm_pc' = "done"
    /\ UNCHANGED <<boot, fpvm_out>>
    /\ UNCHANGED <<zkVars, bpVars, exVars, cdVars, hsVars, lruVars, sfVars, syVars>>

FpvmNext ==
    \/ FpvmPrologue
    \/ FpvmProduceOutput
    \/ FpvmEpilogue

\* ------------------------------------------------------------------------
\* Bytes, digests and preimage keys
\* ------------------------------------------------------------------------
\* [b; n]
Bytes(n, b) == [i \in 1..n |-> b]

\* u64::to_be_bytes, for n < 2^24 (the five leading bytes are then zero)
U64BE(n) ==
    [i \in 1..8 |-> IF i <= 5 THEN 0
                    ELSE (n \div (IF i = 6 THEN 65536 ELSE IF i = 7 THEN 256 ELSE 1)) % 256]

\* u64::from_be_bytes, for 8 bytes whose five leading bytes are zero
U64FromBE(b) == b[6] * 65536 + b[7] * 256 + b[8]

\* First byte of a digest: an ordinary byte determined by the preimage.
DigestTop(v) == IF Len(v) = 0 THEN 0 ELSE (v[1] + Len(v)) % 256

\* alloy_primitives::keccak256
keccak256(v) == [top |-> DigestTop(v), body |-> <<"keccak256", v>>]

\* sha2::Sha256::digest / sha256::digest
sha256(v) == [top |-> (DigestTop(v) + 1) % 256, body |-> <<"sha256", v>>]

\* Tag byte of a PreimageKeyType
KeyTypeTag(t) ==
    CASE t = "Local" -> 1
      [] t = "Keccak256" -> 2
      [] t = "GlobalGeneric" -> 3
      [] t = "Sha256" -> 4
      [] t = "Blob" -> 5
      [] t = "Precompile" -> 6

\* PreimageKey::new(hash, type): the first byte of the hash is dropped and
\* replaced by the type tag, the other 31 bytes are kept.
PreimageKeyNew(hash, t) == [type |-> t, body |-> hash.body]

\* <PreimageKey as Into<[u8; 32]>>::into
PreimageKeyInto(key) == [top |-> KeyTypeTag(key.type), body |-> key.body]

\* Precompile::from_bytes(hint_data): None when the call data is empty
PrecompileFromBytes(hint_data) ==
    IF Len(hint_data) = 0 THEN NoValue ELSE [input |-> hint_data]

\* Precompile::execute: a deterministic function of the call data
PrecompileExecute(precompile) ==
    [i \in 1..Len(precompile.input) |-> (precompile.input[i] + 1) % 256]

\* ------------------------------------------------------------------------
\* InMemoryOracle: get, get_exact
\* ------------------------------------------------------------------------
\* InMemoryOracle::get: Ok(value) or Err("Key not found in cache")
OracleGet(c, key) ==
    IF key \in DOMAIN c THEN [ok |-> TRUE, value |-> c[key]]
    ELSE [ok |-> FALSE, value |-> <<>>]

\* Variant of OracleGetExact that copies the bytes that fit and returns Ok.
OracleGetExactTruncating(c, key, buflen) ==
    IF key \notin DOMAIN c THEN [status |-> "Err", buf |-> Bytes(buflen, 0)]
    ELSE [status |-> "Ok",
          buf |-> [i \in 1..buflen |-> IF i <= Len(c[key]) THEN c[key][i] ELSE 0]]

\* InMemoryOracle::get_exact(key, buf) with buf of buflen bytes:
\* "Ok" with the bytes copied, "Err" when the key is absent, "panic" when
\* copy_from_slice meets slices of different lengths.
OracleGetExact(c, key, buflen) ==
    IF key \notin DOMAIN c THEN [status |-> "Err", buf |-> Bytes(buflen, 0)]
    ELSE IF Len(c[key]) # buflen THEN [status |-> "panic", buf |-> Bytes(buflen, 0)]
    ELSE [status |-> "Ok", buf |-> c[key]]

\* ------------------------------------------------------------------------
\* InMemoryOracle::verify
\* ------------------------------------------------------------------------
\* Length of Blob.data: FixedBytes<4096>
BlobDataLen == 4096
\* Index values that mark the two parts of the KZG proof
ProofIndexLo == 4096
ProofIndexHi == 4097

\* Blob.data is kept sparsely: a function from the 32-byte slots that hold a
\* non-zero byte to their content; every other byte of the array is zero.
BlobDefault ==
    [commitment |-> Bytes(48, 0), data |-> <<>>, kzg_proof |-> Bytes(48, 0)]

\* data[32*slot .. 32*(slot+1)]
DataSlot(data, slot) == IF slot \in DOMAIN data THEN data[slot] ELSE Bytes(32, 0)

\* byte j (0-based) of Blob.data
DataByte(data, j) == DataSlot(data, j \div 32)[(j % 32) + 1]

\* data.get_mut(lo..hi) is Some exactly when the range lies inside the array
GetMutIsSome(lo, hi) == lo <= hi /\ hi <= BlobDataLen

AllZero(bs) == \A i \in 1..Len(bs) : bs[i] = 0

\* blobs.entry(commitment).or_insert(Blob::default())
BlobEntry(bl, commitment) ==
    IF commitment \in DOMAIN bl THEN bl[commitment] ELSE BlobDefault

PutBlob(bl, commitment, blob) ==
    [c \in DOMAIN bl \cup {commitment} |-> IF c = commitment THEN blob ELSE bl[c]]

PutSlot(data, slot, value) ==
    [s \in DOMAIN data \cup {slot} |-> IF s = slot THEN value ELSE data[s]]

\* The Blob arm of the match, once the sibling entry blob_data was found.
\* The closure given to .map returns a Result that nobody reads: a slot that
\* is not all zero keeps its content and the loop goes on.
VerifyBlobArm(bl, blob_data, value) ==
    IF Len(blob_data) # 80
    THEN [status |-> "panic", blobs |-> bl]     \* try_into().unwrap() / slicing
    ELSE
      LET commitment == SubSeq(blob_data, 1, 48)
          element == U64FromBE(SubSeq(blob_data, 73, 80))
          blob == BlobEntry(bl, commitment)
      IN  IF element = ProofIndexLo
          THEN IF Len(value) # 32
               THEN [status |-> "panic", blobs |-> PutBlob(bl, commitment, blob)]
               ELSE [status |-> "continue",
                     blobs |-> PutBlob(bl, commitment,
                        [blob EXCEPT !.kzg_proof = value \o SubSeq(blob.kzg_proof, 33, 48)])]
          ELSE IF element = ProofIndexHi
          THEN IF Len(value) < 16
               THEN [status |-> "panic", blobs |-> PutBlob(bl, commitment, blob)]
               ELSE [status |-> "continue",
                     blobs |-> PutBlob(bl, commitment,
                        [blob EXCEPT !.kzg_proof =
                            SubSeq(blob.kzg_proof, 1, 32) \o SubSeq(value, 1, 16)])]
          ELSE IF ~GetMutIsSome(element * 32, (element + 1) * 32)
          THEN [status |-> "continue", blobs |-> PutBlob(bl, commitment, blob)]
          ELSE IF ~AllZero(DataSlot(blob.data, element))
          THEN [status |-> "continue", blobs |-> PutBlob(bl, commitment, blob)]
          ELSE IF Len(value) # 32
          THEN [status |-> "panic", blobs |-> PutBlob(bl, commitment, blob)]
          ELSE [status |-> "continue",
                blobs |-> PutBlob(bl, commitment,
                    IF AllZero(value) THEN blob
                    ELSE [blob EXCEPT !.data = PutSlot(blob.data, element, value)])]

\* Variant of VerifyKeccakArm that never compares the digest.
VerifyKeccakArmUnchecked(key, value) == "continue"

\* The Keccak256 arm: assert_eq!(*key, derived_key)
VerifyKeccakArm(key, value) ==
    IF key = PreimageKeyNew(keccak256(value), "Keccak256") THEN "continue" ELSE "panic"

\* The Sha256 arm: assert_eq!(*key, derived_key)
VerifySha256Arm(key, value) ==
    IF key = PreimageKeyNew(sha256(value), "Sha256") THEN "continue" ELSE "panic"

\* Variant of VerifyPrecompileArm that skips an entry without hint data.
VerifyPrecompileArmLenient(c, hint_data_key, value) ==
    IF hint_data_key \in DOMAIN c
    THEN IF PrecompileFromBytes(c[hint_data_key]) = NoValue
         THEN "panic"
         ELSE IF value = PrecompileExecute(PrecompileFromBytes(c[hint_data_key]))
              THEN "continue"
              ELSE "panic"
    ELSE "continue"

\* The Precompile arm: the hint data is the sibling Keccak256 entry
VerifyPrecompileArm(c, hint_data_key, value) ==
    IF hint_data_key \in DOMAIN c
    THEN IF PrecompileFromBytes(c[hint_data_key]) = NoValue
         THEN "panic"                                       \* unwrap()
         ELSE IF value = PrecompileExecute(PrecompileFromBytes(c[hint_data_key]))
              THEN "continue"
              ELSE "panic"                                  \* assert_eq!
    ELSE "err"

\* Variant of VerifyGlobalGenericArm that skips the entry.
VerifyGlobalGenericArmSkipped(key) == "continue"

\* PreimageKeyType::GlobalGeneric => unimplemented!()
VerifyGlobalGenericArm(key) == "panic"

\* One iteration of `for (key, value) in self.cache.iter()`:
\* "continue" (next entry), "panic" (assert_eq!, unwrap, unimplemented!)
\* or "err" (return Err(..)), with the blobs map after the iteration.
VerifyEntry(c, bl, key) ==
    LET value == c[key]
        sibling == PreimageKeyNew(PreimageKeyInto(key), "Keccak256")
    IN  CASE key.type = "Local" -> [status |-> "continue", blobs |-> bl]
          [] key.type = "Keccak256" ->
                [status |-> VerifyKeccakArm(key, value), blobs |-> bl]
          [] key.type = "GlobalGeneric" ->
                [status |-> VerifyGlobalGenericArm(key), blobs |-> bl]
          [] key.type = "Sha256" ->
                [status |-> VerifySha256Arm(key, value), blobs |-> bl]
          [] key.type = "Blob" ->
                IF sibling \in DOMAIN c
                THEN VerifyBlobArm(bl, c[sibling], value)
                ELSE [status |-> "err", blobs |-> bl]
          [] key.type = "Precompile" ->
                [status |-> VerifyPrecompileArm(c, sibling, value), blobs |-> bl]

\* The loop after the scan: its body is commented out, no blob is checked.
VerifyBlobsAfterScan(bl) == "Ok"

\* kzg::verify_blob_kzg_proof(data, commitment, proof): the relation the
\* commented-out call would check.  A stand-in for the pairing check: the
\* commitment and the proof both carry a checksum of the blob data.
DataChecksum(data) ==
    LET slots == DOMAIN data
        F[S \in SUBSET slots] ==
            IF S = {} THEN 0
            ELSE LET s == CHOOSE x \in S : TRUE IN (data[s][1] + F[S \ {s}]) % 256
    IN  F[slots]

verify_blob_kzg_proof(data, commitment, proof) ==
    /\ commitment[2] = DataChecksum(data)
    /\ proof[1] = DataChecksum(data)


\* ------------------------------------------------------------------------
\* The preimage stores the zkVM client is started with
\* ------------------------------------------------------------------------
\* A store holds at most MaxEntries entries.
MaxEntries == 3
\* The oracle serves at most MaxReads reads in one run.
MaxReads == 2

\* Two KZG commitments (48 bytes)
CommitA == [i \in 1..48 |-> IF i = 1 THEN 208 ELSE 17]
CommitB == Bytes(48, 9)
\* The 24 reserved bytes of a field element key: all zero, and a variant
Reserved0 == Bytes(24, 0)
ReservedAlt == [i \in 1..24 |-> IF i = 24 THEN 1 ELSE 0]
\* Two field elements (32 bytes)
Elem1 == Bytes(32, 17)
Elem2 == Bytes(32, 34)
\* Precompile call data
HintData == <<5, 6>>

\* commitment || reserved || u64_be(index), 80 bytes
FieldElementKey(commitment, reserved, index) == commitment \o reserved \o U64BE(index)

Entry(key, value) == [key |-> key, value |-> value]

\* The Keccak256 entry holding v
KeccakEntry(v) == Entry(PreimageKeyNew(keccak256(v), "Keccak256"), v)

\* The Blob entry whose sibling holds fek
BlobEntryFor(fek, value) == Entry(PreimageKeyNew(keccak256(fek), "Blob"), value)

\* Field element indexes of the entries tried: first and last slot that fit
\* in Blob.data, the first that does not, and the two proof markers.
BlobIndexes == {0, 127, 128, 4096, 4097}

CandidateEntries ==
    {Entry([type |-> "Local", body |-> <<"local", <<1>>>>], <<42>>),
     Entry([type |-> "GlobalGeneric", body |-> <<"generic", <<1>>>>], <<1>>),
     KeccakEntry(<<1, 2, 3>>),
     Entry(PreimageKeyNew(keccak256(<<1, 2, 3>>), "Keccak256"), <<1, 2, 4>>),
     Entry(PreimageKeyNew(sha256(CommitA), "Sha256"), CommitA),
     Entry(PreimageKeyNew(sha256(CommitA), "Sha256"), CommitB),
     KeccakEntry(HintData),
     Entry(PreimageKeyNew(keccak256(HintData), "Precompile"), <<6, 7>>),
     Entry(PreimageKeyNew(keccak256(HintData), "Precompile"), <<6, 8>>),
     KeccakEntry(FieldElementKey(CommitA, ReservedAlt, 0)),
     BlobEntryFor(FieldElementKey(CommitA, ReservedAlt, 0), Elem2)}
    \cup {KeccakEntry(FieldElementKey(CommitA, Reserved0, i)) : i \in BlobIndexes}
    \cup {BlobEntryFor(FieldElementKey(CommitA, Reserved0, i), Elem1) : i \in BlobIndexes}

RECURSIVE SubsetsUpTo(_, _)
SubsetsUpTo(S, k) ==
    IF k = 0 \/ S = {} THEN {{}}
    ELSE LET x == CHOOSE y \in S : TRUE
             R == S \ {x}
         IN  SubsetsUpTo(R, k) \cup {T \cup {x} : T \in SubsetsUpTo(R, k - 1)}

\* A set of entries is a map when no key occurs twice.
IsMap(S) == \A e1, e2 \in S : e1.key = e2.key => e1 = e2

StoreOf(S) == [k \in {e.key : e \in S} |-> (CHOOSE e \in S : e.key = k).value]

Stores == {StoreOf(S) : S \in {T \in SubsetsUpTo(CandidateEntries, MaxEntries) : IsMap(T)}}

\* Keys a provider may ask for
ReadKeys == {e.key : e \in CandidateEntries}

\* ------------------------------------------------------------------------
\* zkVM client: main of bin/programs/zkvm-client/src/main.rs (target zkvm)
\* ------------------------------------------------------------------------
\* The boot claim committed as public input
ZkBoot == [l2_claim_block |-> 1, l2_claim |-> 1]

ZkIdle ==
    /\ cache = <<>>
    /\ zk_pc = "idle"
    /\ pending = {}
    /\ blobs = <<>>
    /\ verify_result = "none"
    /\ reads = 0
    /\ last_get = NoValue
    /\ last_read = NoValue
    /\ zk_out = NoValue

ZkInit ==
    /\ cache \in Stores
    /\ zk_pc = "input"
    /\ pending = {}
    /\ blobs = <<>>
    /\ verify_result = "none"
    /\ reads = 0
    /\ last_get = NoValue
    /\ last_read = NoValue
    /\ zk_out = NoValue

\* sp1_zkvm::io::read, commit, read_vec, InMemoryOracle::from_raw_bytes:
\* bincode::deserialize(..).unwrap() panics on bytes that are not a map.
\* Then oracle.verify() is entered: blobs = HashMap::new(), the iterator
\* is at the start.
ZkReadInput ==
    /\ zk_pc = "input"
    /\ \/ /\ zk_pc' = "verify"
          /\ pending' = DOMAIN cache
       \/ /\ zk_pc' = "panic"
          /\ UNCHANGED pending
    /\ UNCHANGED <<cache, blobs, verify_result, reads, last_get, last_read, zk_out>>
    /\ UNCHANGED <<fpvmVars, bpVars, exVars, cdVars, hsVars, lruVars, sfVars, syVars>>

\* One iteration of the scan of verify(); HashMap iteration order is
\* unspecified, so any entry not yet visited may come next.  A panic, and
\* an Err (through .expect in main), end the program.
ZkVerifyStep ==
    /\ zk_pc = "verify"
    /\ \E key \in pending :
          LET r == VerifyEntry(cache, blobs, key)
          IN  /\ blobs' = r.blobs
              /\ pending' = pending \ {key}
              /\ IF r.status = "continue"
                 THEN UNCHANGED <<zk_pc, verify_result>>
                 ELSE /\ zk_pc' = "panic"
                      /\ verify_result' = IF r.status = "err" THEN "Err" ELSE "panic"
    /\ UNCHANGED <<cache, reads, last_get, last_read, zk_out>>
    /\ UNCHANGED <<fpvmVars, bpVars, exVars, cdVars, hsVars, lruVars, sfVars, syVars>>

\* End of the scan: the loop over blobs, then Ok(()); main goes on to build
\* the providers and the derivation driver.
ZkVerifyReturn ==
    /\ zk_pc = "verify"
    /\ pending = {}
    /\ verify_result' = VerifyBlobsAfterScan(blobs)
    /\ zk_pc' = "run"
    /\ UNCHANGED <<cache, pending, blobs, reads, last_get, last_read, zk_out>>
    /\ UNCHANGED <<fpvmVars, bpVars, exVars, cdVars, hsVars, lruVars, sfVars, syVars>>

\* verify() as a function of the order in which cache.iter() hands out the
\* entries: "Ok", "Err" or "panic".  bl is the blobs map so far, order the
\* keys still to come.
RECURSIVE VerifyInOrder(_, _, _)
VerifyInOrder(c, bl, order) ==
    IF order = <<>> THEN VerifyBlobsAfterScan(bl)
    ELSE LET r == VerifyEntry(c, bl, Head(order))
         IN  IF r.status = "continue" THEN VerifyInOrder(c, r.blobs, Tail(order))
             ELSE IF r.status = "err" THEN "Err"
             ELSE "panic"

\* The orders in which a HashMap with the keys S may be iterated
IterationOrders(S) ==
    {order \in [1..Cardinality(S) -> S] :
        \A i, j \in 1..Cardinality(S) : order[i] = order[j] => i = j}

\* Stores of at most MaxBlobEntries entries around one blob slot: two field
\* element keys that name the same commitment and the same index (they
\* differ in the reserved bytes), each with its Keccak256 entry and with a
\* Blob entry that holds 32 bytes or a single byte.
MaxBlobEntries == 4

SlotEntries ==
    {KeccakEntry(FieldElementKey(CommitA, Reserved0, 0)),
     KeccakEntry(FieldElementKey(CommitA, ReservedAlt, 0)),
     BlobEntryFor(FieldElementKey(CommitA, Reserved0, 0), Elem1),
     BlobEntryFor(FieldElementKey(CommitA, Reserved0, 0), <<7>>),
     BlobEntryFor(FieldElementKey(CommitA, ReservedAlt, 0), Elem2),
     BlobEntryFor(FieldElementKey(CommitA, ReservedAlt, 0), <<7>>),
     KeccakEntry(<<1, 2, 3>>)}

SlotStores ==
    {StoreOf(S) : S \in {T \in SubsetsUpTo(SlotEntries, MaxBlobEntries) : IsMap(T)}}

\* The zkVM client started on one of the stores above
ZkInitSlot ==
    /\ cache \in SlotStores
    /\ zk_pc = "input"
    /\ pending = {}
    /\ blobs = <<>>
    /\ verify_result = "none"
    /\ reads = 0
    /\ last_get = NoValue
    /\ last_read = NoValue
    /\ zk_out = NoValue

\* main up to the return of oracle.verify()
ZkVerifyNext ==
    \/ ZkReadInput
    \/ ZkVerifyStep
    \/ ZkVerifyReturn

\* Variant of ZkMayRead: the providers are built before verify() returns.
ZkMayReadEarly == zk_pc \in {"verify", "run"}

\* Position of main at which the oracle may be read: the providers, the
\* driver and the executor are created after oracle.verify().expect(..).
ZkMayRead == zk_pc = "run"

\* A provider, the driver or the executor reads a preimage (get / get_exact
\* behind DerivationDriver::new, produce_disputed_payload, execute_payload,
\* compute_output_root).  A missing key is an error that main unwraps.
ZkOracleGet ==
    /\ ZkMayRead
    /\ reads < MaxReads
    /\ \E key \in ReadKeys :
          LET r == OracleGet(cache, key)
          IN  /\ last_read' = [op |-> "get", key |-> key, buflen |-> 0,
                               status |-> IF r.ok THEN "Ok" ELSE "Err",
                               value |-> r.value]
              /\ IF r.ok
                 THEN /\ last_get' = [key |-> key, value |-> r.value]
                      /\ reads' = reads + 1
                      /\ UNCHANGED zk_pc
                 ELSE /\ zk_pc' = "panic"
                      /\ reads' = reads + 1
                      /\ UNCHANGED last_get
    /\ UNCHANGED <<cache, pending, blobs, verify_result, zk_out>>
    /\ UNCHANGED <<fpvmVars, bpVars, exVars, cdVars, hsVars, lruVars, sfVars, syVars>>

\* Lengths of the buffers handed to get_exact
BufLens == {2, 3, 32}

\* A provider reads a preimage into a buffer of its own size (get_exact).
\* An absent key is an error that main unwraps; a buffer of another length
\* than the stored value makes copy_from_slice panic.  value is the buffer
\* after the call (zero-initialised by the caller).
ZkOracleGetExact ==
    /\ ZkMayRead
    /\ reads < MaxReads
    /\ \E key \in ReadKeys, buflen \in BufLens :
          LET r == OracleGetExact(cache, key, buflen)
          IN  /\ last_read' = [op |-> "get_exact", key |-> key, buflen |-> buflen,
                               status |-> r.status, value |-> r.buf]
              /\ reads' = reads + 1
              /\ IF r.status = "Ok"
                 THEN /\ last_get' = [key |-> key, value |-> r.buf]
                      /\ UNCHANGED zk_pc
                 ELSE /\ zk_pc' = "panic"
                      /\ UNCHANGED last_get
    /\ UNCHANGED <<cache, pending, blobs, verify_result, zk_out>>
    /\ UNCHANGED <<fpvmVars, bpVars, exVars, cdVars, hsVars, lruVars, sfVars, syVars>>

\* execute_payload(..).unwrap() and compute_output_root().unwrap(): a
\* header number and an output root, or a panic.
ZkExecute ==
    /\ zk_pc = "run"
    /\ \/ /\ \E n \in BlockNumbers, r \in Roots :
                zk_out' = [number |-> n, output_root |-> r]
          /\ zk_pc' = "epilogue"
       \/ /\ zk_pc' = "panic"
          /\ UNCHANGED zk_out
    /\ UNCHANGED <<cache, pending, blobs, verify_result, reads, last_get, last_read>>
    /\ UNCHANGED <<fpvmVars, bpVars, exVars, cdVars, hsVars, lruVars, sfVars, syVars>>

\* EPILOGUE: assert_eq!(number, l2_claim_block); assert_eq!(output_root, l2_claim)
ZkEpilogue ==
    /\ zk_pc = "epilogue"
    /\ zk_pc' = IF zk_out.number = ZkBoot.l2_claim_block
                   /\ zk_out.output_root = ZkBoot.l2_claim
                THEN "done" ELSE "panic"
    /\ UNCHANGED <<cache, pending, blobs, verify_result, reads, last_get, last_read,
                   zk_out>>
    /\ UNCHANGED <<fpvmVars, bpVars, exVars, cdVars, hsVars, lruVars, sfVars, syVars>>

ZkNext ==
    \/ ZkReadInput
    \/ ZkVerifyStep
    \/ ZkVerifyReturn
    \/ ZkOracleGet
    \/ ZkOracleGetExact
    \/ ZkExecute
    \/ ZkEpilogue

\* ------------------------------------------------------------------------
\* OracleBlobProvider::get_blob, for InMemoryOracle and for CachingOracle
\* ------------------------------------------------------------------------
\* Number of field elements of a blob (4096 in alloy_eips::eip4844), scaled.
FIELD_ELEMENTS_PER_BLOB == 4
\* Blob indexes of a request range over 0..MaxBlobIndex.
MaxBlobIndex == 1
\* First byte of a versioned hash
VERSIONED_HASH_VERSION_KZG == 1

\* Length of alloy_consensus::Blob in bytes
BytesPerBlob == FIELD_ELEMENTS_PER_BLOB * 32

FieldIndexes == 0..(FIELD_ELEMENTS_PER_BLOB - 1)

\* A field element stored under a key whose reserved bytes are not zero
Decoy == Bytes(32, 99)

\* CachingOracle::get_exact: the preimage must be served and must fill the
\* buffer exactly
CachingGetExact(c, key, buflen) ==
    IF key \in DOMAIN c /\ Len(c[key]) = buflen
    THEN [status |-> "Ok", buf |-> c[key]]
    ELSE [status |-> "Err", buf |-> Bytes(buflen, 0)]

\* self.oracle.get_exact(key, &mut buf) of the impl for the given oracle type
ProviderGetExact(variant, c, key, buflen) ==
    IF variant = "InMemory" THEN OracleGetExact(c, key, buflen)
    ELSE CachingGetExact(c, key, buflen)

\* Variant of EmitsHint: no impl writes a hint.
EmitsHintNever(variant) == FALSE

\* HINT_WRITER.write(..) is part of the CachingOracle impl only.
EmitsHint(variant) == variant = "Caching"

\* HintType::L1Blob.encode_with(&[blob_req_meta])
L1BlobHint(meta) == [type |-> "L1Blob", data |-> meta]

\* blob_hash.hash || u64_be(index) || u64_be(timestamp): 32 + 8 + 8 bytes,
\* the hash being one 32-byte word
ComposeBlobReqMeta(hash, index, timestamp) ==
    <<hash>> \o U64BE(index) \o U64BE(timestamp)

\* Variant of WriteFieldElement without the shift by 5.
WriteFieldElementNoShift(b, i, field_element) ==
    [j \in 1..Len(b) |-> IF j > i /\ j <= i + 32 THEN field_element[j - i] ELSE b[j]]

\* blob[i << 5 .. (i + 1) << 5].copy_from_slice(field_element)
WriteFieldElement(b, i, field_element) ==
    [j \in 1..Len(b) |-> IF j > i * 32 /\ j <= (i + 1) * 32
                          THEN field_element[j - i * 32] ELSE b[j]]

\* What an oracle holds for one blob: the commitment under the Sha256 key
\* (present, of a wrong length, or absent), the field elements under the Blob
\* keys (one of them possibly absent), and other elements under the keys
\* whose reserved bytes are not zero.
BlobOracle(c, commitKind, elems, missing) ==
    StoreOf(
        (IF commitKind = "present"
            THEN {Entry(PreimageKeyNew(sha256(c), "Sha256"), c)}
         ELSE IF commitKind = "short"
            THEN {Entry(PreimageKeyNew(sha256(c), "Sha256"), SubSeq(c, 1, 47))}
         ELSE {})
        \cup {BlobEntryFor(FieldElementKey(c, Reserved0, i), elems[i]) :
                i \in FieldIndexes \ {missing}}
        \cup {BlobEntryFor(FieldElementKey(c, ReservedAlt, i), Decoy) : i \in FieldIndexes})

\* Blob hashes a request may carry for commitment c: the SHA-256 digest, the
\* versioned hash (first byte overwritten with the KZG version tag), and
\* the digest of something else.
BlobHashesFor(c) ==
    {sha256(c),
     [top |-> VERSIONED_HASH_VERSION_KZG, body |-> sha256(c).body],
     sha256(<<0>>)}

BpIdle ==
    /\ bp_variant = "none"
    /\ bp_oracle = <<>>
    /\ bp_req = NoValue
    /\ bp_pc = "idle"
    /\ bp_status = "running"
    /\ bp_blob_req_meta = <<>>
    /\ bp_commitment = <<>>
    /\ bp_field_element_key = <<>>
    /\ bp_i = 0
    /\ bp_blob = <<>>
    /\ bp_ops = <<>>
    /\ bp_written = <<>>
    /\ bp_hint_ret = NoValue

BpInit ==
    /\ bp_variant \in {"InMemory", "Caching"}
    /\ \E c \in {CommitA, CommitB} :
          /\ bp_oracle \in {BlobOracle(c, ck, elems, missing) :
                                ck \in {"present", "short", "absent"},
                                elems \in [FieldIndexes -> {Elem1, Elem2}],
                                missing \in FieldIndexes \cup {-1}}
          /\ bp_req \in [hash : BlobHashesFor(c), index : 0..MaxBlobIndex,
                         timestamp : {66051}]
    /\ bp_pc = "start"
    /\ bp_status = "running"
    /\ bp_blob_req_meta = <<>>
    /\ bp_commitment = <<>>
    /\ bp_field_element_key = <<>>
    /\ bp_i = 0
    /\ bp_blob = <<>>
    /\ bp_ops = <<>>
    /\ bp_written = <<>>
    /\ bp_hint_ret = NoValue

GetExactOp(key, buflen) == [op |-> "get_exact", key |-> key, len |-> buflen]

HintOp(hint) == [op |-> "hint_write", hint |-> hint]

\* Compose blob_req_meta; the CachingOracle impl then writes the L1Blob hint
\* and waits for it (`.await?`): the write may fail.
BpStart ==
    /\ bp_pc = "start"
    /\ bp_blob_req_meta' = ComposeBlobReqMeta(bp_req.hash, bp_req.index, bp_req.timestamp)
    /\ IF EmitsHint(bp_variant)
       THEN /\ bp_ops' = Append(bp_ops, HintOp(L1BlobHint(bp_blob_req_meta')))
            /\ \/ /\ bp_pc' = "commitment"
                  /\ UNCHANGED bp_status
               \/ /\ bp_pc' = "done"
                  /\ bp_status' = "Err"
       ELSE /\ bp_pc' = "commitment"
            /\ UNCHANGED <<bp_ops, bp_status>>
    /\ UNCHANGED <<bp_variant, bp_oracle, bp_req, bp_commitment, bp_field_element_key,
                   bp_i, bp_blob, bp_written>>
    /\ UNCHANGED bp_hint_ret
    /\ UNCHANGED <<fpvmVars, zkVars, exVars, cdVars, hsVars, lruVars, sfVars, syVars>>

\* Fetch the blob commitment into a 48-byte buffer; the InMemoryOracle impl
\* then asserts sha256(commitment) == blob_hash.hash on all 32 bytes.  Then
\* blob = Blob::default(), field_element_key[..48] = commitment.
BpGetCommitment ==
    /\ bp_pc = "commitment"
    /\ LET key == PreimageKeyNew(bp_req.hash, "Sha256")
           r == ProviderGetExact(bp_variant, bp_oracle, key, 48)
       IN  /\ bp_ops' = Append(bp_ops, GetExactOp(key, 48))
           /\ IF r.status # "Ok"
              THEN /\ bp_pc' = "done"
                   /\ bp_status' = IF r.status = "Err" THEN "Err" ELSE "panic_copy"
                   /\ UNCHANGED <<bp_commitment, bp_field_element_key, bp_blob>>
              ELSE IF bp_variant = "InMemory" /\ sha256(r.buf) # bp_req.hash
              THEN /\ bp_pc' = "done"
                   /\ bp_status' = "panic_assert"
                   /\ bp_commitment' = r.buf
                   /\ UNCHANGED <<bp_field_element_key, bp_blob>>
              ELSE /\ bp_pc' = "elements"
                   /\ bp_commitment' = r.buf
                   /\ bp_field_element_key' = r.buf \o Bytes(32, 0)
                   /\ bp_blob' = Bytes(BytesPerBlob, 0)
                   /\ UNCHANGED bp_status
    /\ UNCHANGED <<bp_variant, bp_oracle, bp_req, bp_blob_req_meta, bp_i, bp_written>>
    /\ UNCHANGED bp_hint_ret
    /\ UNCHANGED <<fpvmVars, zkVars, exVars, cdVars, hsVars, lruVars, sfVars, syVars>>

\* One iteration of `for i in 0..FIELD_ELEMENTS_PER_BLOB`.
BpGetFieldElement ==
    /\ bp_pc = "elements"
    /\ bp_i < FIELD_ELEMENTS_PER_BLOB
    /\ bp_field_element_key' = SubSeq(bp_field_element_key, 1, 72) \o U64BE(bp_i)
    /\ LET key == PreimageKeyNew(keccak256(bp_field_element_key'), "Blob")
           r == ProviderGetExact(bp_variant, bp_oracle, key, 32)
       IN  /\ bp_ops' = Append(bp_ops, GetExactOp(key, 32))
           /\ IF r.status # "Ok"
              THEN /\ bp_pc' = "done"
                   /\ bp_status' = IF r.status = "Err" THEN "Err" ELSE "panic_copy"
                   /\ UNCHANGED <<bp_blob, bp_i, bp_written>>
              ELSE /\ bp_blob' = WriteFieldElement(bp_blob, bp_i, r.buf)
                   /\ bp_written' = Append(bp_written, bp_i)
                   /\ bp_i' = bp_i + 1
                   /\ UNCHANGED <<bp_pc, bp_status>>
    /\ UNCHANGED <<bp_variant, bp_oracle, bp_req, bp_blob_req_meta, bp_commitment>>
    /\ UNCHANGED bp_hint_ret
    /\ UNCHANGED <<fpvmVars, zkVars, exVars, cdVars, hsVars, lruVars, sfVars, syVars>>

\* After the loop: Ok(blob)
BpReturn ==
    /\ bp_pc = "elements"
    /\ bp_i = FIELD_ELEMENTS_PER_BLOB
    /\ bp_pc' = "done"
    /\ bp_status' = "Ok"
    /\ UNCHANGED <<bp_variant, bp_oracle, bp_req, bp_blob_req_meta, bp_commitment,
                   bp_field_element_key, bp_i, bp_blob, bp_ops, bp_written>>
    /\ UNCHANGED bp_hint_ret
    /\ UNCHANGED <<fpvmVars, zkVars, exVars, cdVars, hsVars, lruVars, sfVars, syVars>>

\* Hints the providers and the executor of the zkVM program may write
ZkvmHints ==
    {L1BlobHint(ComposeBlobReqMeta(sha256(CommitA), 0, 66051)),
     [type |-> "L2StateNode", data |-> <<7>>]}

\* Variant of NoopHintWriterWrite that forwards the hint to the channel.
NoopHintWriterWriteForwarding(hint) == [ret |-> "Ok", io |-> <<HintOp(hint)>>]

\* NoopHintWriter::write(&self, _hint: &str): the body is Ok(()).  io is the
\* sequence of channel operations of the call.
NoopHintWriterWrite(hint) == [ret |-> "Ok", io |-> <<>>]

\* <InMemoryOracle as HintWriterClient>::write(&self, _hint: &str): Ok(())
InMemoryOracleWrite(hint) == [ret |-> "Ok", io |-> <<>>]

\* A component of the zkVM program writes a hint through one of the two
\* ZKVM hint writers; both take &self and touch neither oracle nor channel.
BpZkvmHintWrite ==
    /\ bp_variant = "InMemory"
    /\ bp_status = "running"
    /\ \E writer \in {"NoopHintWriter", "InMemoryOracle"}, hint \in ZkvmHints :
          LET r == IF writer = "NoopHintWriter" THEN NoopHintWriterWrite(hint)
                   ELSE InMemoryOracleWrite(hint)
          IN  /\ bp_ops' = bp_ops \o r.io
              /\ bp_hint_ret' = [writer |-> writer, hint |-> hint, ret |-> r.ret]
    /\ UNCHANGED <<bp_variant, bp_oracle, bp_req, bp_pc, bp_status, bp_blob_req_meta,
                   bp_commitment, bp_field_element_key, bp_i, bp_blob, bp_written>>
    /\ UNCHANGED <<fpvmVars, zkVars, exVars, cdVars, hsVars, lruVars, sfVars, syVars>>

BpNext ==
    \/ BpStart
    \/ BpGetCommitment
    \/ BpGetFieldElement
    \/ BpReturn
    \/ BpZkvmHintWrite

\* ------------------------------------------------------------------------
\* StatelessL2BlockExecutor: execute_payload, compute_output_root
\* ------------------------------------------------------------------------
\* The payloads an executor is handed carry at most MaxTxs transactions
\* altogether.
MaxTxs == 2
\* Gas limits of transactions range over 1..MaxTxGas.
MaxTxGas == 2
\* Gas limits of payloads range over 1..MaxBlockGas.
MaxBlockGas == 2
\* An executor instance serves at most MaxCalls calls of execute_payload
MaxCalls == 2
\* and at most MaxOutputRoots calls of compute_output_root.
MaxOutputRoots == 1
\* Nonces of depositor accounts range over 0..MaxNonce.
MaxNonce == 1

\* An Option<T>: None is <<>>, Some(x) is <<x>>.
IsSome(o) == o # <<>>

\* The variants of OpTxEnvelope
TxTypes == {"Legacy", "Eip2930", "Eip1559", "Eip4844", "Deposit"}

\* What a RawTransaction decodes to with OpTxEnvelope::decode_2718: an
\* envelope with its gas limit (and, for a deposit, its system flag), or
\* nothing when the bytes are not a transaction.
RawTransactions ==
    {[type |-> t, gas_limit |-> g, is_system_transaction |-> sys] :
        t \in {"Legacy", "Eip1559"}, g \in {1}, sys \in {FALSE}}
    \cup {[type |-> "Eip2930", gas_limit |-> MaxTxGas, is_system_transaction |-> FALSE],
          [type |-> "Eip4844", gas_limit |-> 1, is_system_transaction |-> FALSE],
          [type |-> "Undecodable", gas_limit |-> 0, is_system_transaction |-> FALSE]}
    \cup {[type |-> "Deposit", gas_limit |-> g, is_system_transaction |-> sys] :
            g \in {MaxTxGas}, sys \in BOOLEAN}

RECURSIVE SeqsUpTo(_, _)
SeqsUpTo(S, n) ==
    IF n = 0 THEN {<<>>}
    ELSE LET shorter == SeqsUpTo(S, n - 1)
         IN  shorter \cup {Append(q, x) : q \in {r \in shorter : Len(r) = n - 1}, x \in S}

\* What state_root(&bundle) may answer when it succeeds (a 32-byte word)
StateRoots == {Bytes(32, 1)}

\* L2PayloadAttributes the executor may be handed
Payloads ==
    [gas_limit : {<<>>} \cup {<<g>> : g \in 1..MaxBlockGas},
     timestamp : {20},
     fee_recipient : {"0x4200..0011"},
     prev_randao : {Bytes(32, 33)},
     parent_beacon_block_root : {<<Bytes(32, 44)>>},
     transactions : SeqsUpTo(RawTransactions, MaxTxs)]

\* RollupConfig::is_regolith_active(timestamp)
is_regolith_active(config, timestamp) ==
    IsSome(config.regolith_time) /\ timestamp >= config.regolith_time[1]

\* RollupConfig::is_canyon_active(timestamp)
is_canyon_active(config, timestamp) ==
    IsSome(config.canyon_time) /\ timestamp >= config.canyon_time[1]

\* RollupConfig::is_ecotone_active(timestamp)
is_ecotone_active(config, timestamp) ==
    IsSome(config.ecotone_time) /\ timestamp >= config.ecotone_time[1]

\* util::extract_tx_gas_limit(&transaction)
extract_tx_gas_limit(tx) == tx.gas_limit

\* util::is_system_transaction(&transaction)
is_system_transaction(tx) == tx.type = "Deposit" /\ tx.is_system_transaction

\* alloy RLP encoding of a header, as a term
RlpHeader(header) == <<"rlp", header>>

\* Header::hash_slow / seal_slow: keccak256 of the RLP encoding
hash_slow(header) == [top |-> header.number % 256, body |-> <<"keccak256", RlpHeader(header)>>]

\* Sealed<Header>: the header with its hash
seal_slow(header) == [header |-> header, seal |-> hash_slow(header)]

\* The parent header the builder is given (with_parent_header(header.seal_slow()))
GenesisHeader ==
    [parent_hash |-> hash_slow([number |-> 6]),
     beneficiary |-> "0x4200..0011",
     state_root |-> Bytes(32, 3),
     number |-> 7,
     gas_limit |-> MaxBlockGas,
     gas_used |-> 0,
     timestamp |-> 18,
     mix_hash |-> Bytes(32, 32),
     parent_beacon_block_root |-> <<Bytes(32, 43)>>,
     receipts_root |-> <<"ordered_trie_root", <<>>>>,
     logs_bloom |-> <<"logs_bloom", <<>>>>,
     blob_gas_used |-> <<>>,
     excess_blob_gas |-> <<>>]

\* revm: TARGET_BLOB_GAS_PER_BLOCK, the blob gas of three blobs
TARGET_BLOB_GAS_PER_BLOCK == 393216

\* A parent header of an Ecotone chain: it carries the Cancun fields, here
\* with an excess above the target
EcotoneGenesisHeader ==
    [GenesisHeader EXCEPT !.blob_gas_used = <<0>>,
                          !.excess_blob_gas = <<TARGET_BLOB_GAS_PER_BLOCK + 7>>]

\* prepare_block_env: number = parent_header.number + 1
BlockEnvNumber(parent_header) == parent_header.number + 1

\* revm_spec_id(timestamp): the latest fork active at the timestamp
revm_spec_id(config, timestamp) ==
    IF is_ecotone_active(config, timestamp) THEN "ECOTONE"
    ELSE IF is_canyon_active(config, timestamp) THEN "CANYON"
    ELSE IF is_regolith_active(config, timestamp) THEN "REGOLITH"
    ELSE "BEDROCK"

\* The position of a SpecId in the order of the forks
SpecRank(spec_id) ==
    CASE spec_id = "BEDROCK" -> 0
      [] spec_id = "REGOLITH" -> 1
      [] spec_id = "CANYON" -> 2
      [] spec_id = "ECOTONE" -> 3

\* SpecId::is_enabled_in(other)
is_enabled_in(spec_id, other) == SpecRank(spec_id) >= SpecRank(other)

\* (gas_limit - cumulative_gas_used) as u128.  The subtraction is on u64:
\* below zero it wraps when overflow checks are off, and the difference is
\* then 2^64 + value, which is above every gas limit of the model.
block_available_gas(gas_limit, cumulative_gas_used) ==
    IF cumulative_gas_used <= gas_limit
    THEN [wrapped |-> FALSE, value |-> gas_limit - cumulative_gas_used]
    ELSE [wrapped |-> TRUE, value |-> gas_limit - cumulative_gas_used]

\* Variant of ExceedsAvailable that lets a transaction pass with one unit of
\* gas more than is available.
ExceedsAvailableByTwo(tx, available) ==
    ~available.wrapped /\ extract_tx_gas_limit(tx) > available.value + 1

\* extract_tx_gas_limit(&transaction) > block_available_gas
ExceedsAvailable(tx, available) ==
    ~available.wrapped /\ extract_tx_gas_limit(tx) > available.value

\* Variant of GasCheckFails with the exemption on the other side of Regolith.
GasCheckFailsPostRegolithExempt(tx, available, is_regolith) ==
    ExceedsAvailable(tx, available) /\ (~is_regolith \/ ~is_system_transaction(tx))

\* The condition of the bail!("Transaction gas limit exceeds block gas limit")
GasCheckFails(tx, available, is_regolith) ==
    ExceedsAvailable(tx, available) /\ (is_regolith \/ ~is_system_transaction(tx))

\* Variant of IsEip4844 that rejects nothing.
IsEip4844Never(tx) == FALSE

\* matches!(transaction, OpTxEnvelope::Eip4844(_))
IsEip4844(tx) == tx.type = "Eip4844"

\* prepare_tx_env: the arms that recover the signer
RecoversSigner(tx) == tx.type \in {"Legacy", "Eip2930", "Eip1559"}

\* What load_cache_account(deposit.from) may answer: Err, an account
\* without info, or an account with its nonce
DepositorLoads ==
    {[ok |-> FALSE], [ok |-> TRUE, info |-> <<>>]}
    \cup {[ok |-> TRUE, info |-> <<[nonce |-> n]>>] : n \in 0..MaxNonce}

\* Variant of Depositor that also caches the account of a deposit before
\* Regolith.
DepositorAlways(is_regolith, transaction, load) ==
    IF transaction.type = "Deposit"
    THEN IF load.ok THEN <<load>> ELSE <<>>
    ELSE <<>>

\* let depositor = is_regolith.then(|| ..load_cache_account(deposit.from)
\* .ok().cloned() ..).flatten(): an Option
Depositor(is_regolith, transaction, load) ==
    IF is_regolith
    THEN IF transaction.type = "Deposit"
         THEN IF load.ok THEN <<load>> ELSE <<>>       \* .ok(): an Err becomes None
         ELSE <<>>
    ELSE <<>>

\* depositor.as_ref().map(|d| d.account_info().unwrap_or_default().nonce)
DepositNonce(depositor) ==
    IF IsSome(depositor)
    THEN IF IsSome(depositor[1].info) THEN <<depositor[1].info[1].nonce>> ELSE <<0>>
    ELSE <<>>

\* depositor.is_some().then(|| is_canyon_active(..).then_some(1)).flatten()
DepositReceiptVersion(depositor, is_canyon) ==
    IF IsSome(depositor)
    THEN IF is_canyon THEN <<1>> ELSE <<>>
    ELSE <<>>

\* result.logs(): the logs the EVM produced for the transaction, named by the
\* position of the transaction
ResultLogs(i) == <<[transaction |-> i]>>

\* util::receipt_envelope_from_parts: an OpReceiptEnvelope of the type of
\* the transaction; only the Deposit variant has the two deposit fields
receipt_envelope_from_parts(cumulative_gas_used, logs, tx_type, deposit_nonce, deposit_receipt_version) ==
    [type |-> tx_type,
     cumulative_gas_used |-> cumulative_gas_used,
     logs |-> logs,
     deposit_nonce |-> IF tx_type = "Deposit" THEN deposit_nonce ELSE <<>>,
     deposit_receipt_version |-> IF tx_type = "Deposit" THEN deposit_receipt_version
                                 ELSE <<>>]

\* receipt.encode_2718(&mut buf), as a term
encode_2718(receipt) == <<"eip2718", receipt>>

\* ordered_trie_with_encoder(items, encoder).root(), as a term
ordered_trie_root(encoded) == <<"ordered_trie_root", encoded>>

\* The closure of the map in compute_receipts_root
StripDepositNonce(receipt) ==
    IF receipt.type = "Deposit" THEN [receipt EXCEPT !.deposit_nonce = <<>>] ELSE receipt

\* Variant of compute_receipts_root that strips the nonce whenever Regolith
\* is active.
compute_receipts_root_regolith_only(receipts, config, timestamp) ==
    IF is_regolith_active(config, timestamp)
    THEN ordered_trie_root([k \in 1..Len(receipts) |->
                               encode_2718(StripDepositNonce(receipts[k]))])
    ELSE ordered_trie_root([k \in 1..Len(receipts) |-> encode_2718(receipts[k])])

\* compute_receipts_root
compute_receipts_root(receipts, config, timestamp) ==
    IF is_regolith_active(config, timestamp) /\ ~is_canyon_active(config, timestamp)
    THEN ordered_trie_root([k \in 1..Len(receipts) |->
                               encode_2718(StripDepositNonce(receipts[k]))])
    ELSE ordered_trie_root([k \in 1..Len(receipts) |-> encode_2718(receipts[k])])

\* receipts.iter().flat_map(|receipt| receipt.logs())
RECURSIVE FlatLogs(_)
FlatLogs(receipts) ==
    IF receipts = <<>> THEN <<>> ELSE Head(receipts).logs \o FlatLogs(Tail(receipts))

\* util::logs_bloom, as a term
logs_bloom(logs) == <<"logs_bloom", logs>>

\* revm: calc_excess_blob_gas(parent_excess_blob_gas, parent_blob_gas_used)
calc_excess_blob_gas(parent_excess_blob_gas, parent_blob_gas_used) ==
    IF parent_excess_blob_gas + parent_blob_gas_used > TARGET_BLOB_GAS_PER_BLOCK
    THEN parent_excess_blob_gas + parent_blob_gas_used - TARGET_BLOB_GAS_PER_BLOCK
    ELSE 0

\* Option::unwrap_or_default on an Option<u128>
unwrap_or_default(o) == IF IsSome(o) THEN o[1] ELSE 0

\* Header::next_block_excess_blob_gas: from the two Cancun fields of the
\* header, None when one of them is missing
next_block_excess_blob_gas(header) ==
    IF IsSome(header.excess_blob_gas) /\ IsSome(header.blob_gas_used)
    THEN <<calc_excess_blob_gas(header.excess_blob_gas[1], header.blob_gas_used[1])>>
    ELSE <<>>

\* prepare_block_env: the number and blob_excess_gas_and_price of the
\* BlockEnv (the excess of BlobExcessGasAndPrice::new(x), an Option)
prepare_block_env(spec_id, parent_header) ==
    LET next == next_block_excess_blob_gas(parent_header)
    IN  [number |-> BlockEnvNumber(parent_header),
         blob_excess_gas_and_price |->
            IF IsSome(next) THEN next
            ELSE IF is_enabled_in(spec_id, "ECOTONE") THEN <<0>>
            ELSE <<>>]

\* Variant of CancunFields that always starts from an excess of zero.
CancunFieldsFromZero(config, timestamp, parent_header) ==
    IF is_ecotone_active(config, timestamp)
    THEN [blob_gas_used |-> <<0>>, excess_blob_gas |-> <<calc_excess_blob_gas(0, 0)>>]
    ELSE [blob_gas_used |-> <<>>, excess_blob_gas |-> <<>>]

\* let (blob_gas_used, excess_blob_gas) = is_ecotone_active(payload.timestamp)
\* .then(|| ..).unwrap_or_default()
CancunFields(config, timestamp, parent_header) ==
    IF is_ecotone_active(config, timestamp)
    THEN [blob_gas_used |-> <<0>>,
          excess_blob_gas |->
             IF is_ecotone_active(config, parent_header.timestamp)
             THEN <<calc_excess_blob_gas(unwrap_or_default(parent_header.excess_blob_gas),
                                         unwrap_or_default(parent_header.blob_gas_used))>>
             ELSE <<calc_excess_blob_gas(0, 0)>>]
    ELSE [blob_gas_used |-> <<>>, excess_blob_gas |-> <<>>]

\* Variant of NewHeader that takes parent_hash from the parent's own
\* parent_hash field.
NewHeaderStaleParentHash(parent, payload, block_number, gas_limit, cumulative_gas_used, state_root, roots) ==
    [parent_hash |-> parent.header.parent_hash,
     beneficiary |-> payload.fee_recipient,
     state_root |-> state_root,
     number |-> block_number,
     gas_limit |-> gas_limit,
     gas_used |-> cumulative_gas_used,
     timestamp |-> payload.timestamp,
     mix_hash |-> payload.prev_randao,
     parent_beacon_block_root |-> payload.parent_beacon_block_root,
     receipts_root |-> roots.receipts_root,
     logs_bloom |-> roots.logs_bloom,
     blob_gas_used |-> roots.blob_gas_used,
     excess_blob_gas |-> roots.excess_blob_gas]

\* The header execute_payload constructs; roots holds receipts_root,
\* logs_bloom, blob_gas_used and excess_blob_gas as computed before
NewHeader(parent, payload, block_number, gas_limit, cumulative_gas_used, state_root, roots) ==
    [parent_hash |-> parent.seal,
     beneficiary |-> payload.fee_recipient,
     state_root |-> state_root,
     number |-> block_number,
     gas_limit |-> gas_limit,
     gas_used |-> cumulative_gas_used,
     timestamp |-> payload.timestamp,
     mix_hash |-> payload.prev_randao,
     parent_beacon_block_root |-> payload.parent_beacon_block_root,
     receipts_root |-> roots.receipts_root,
     logs_bloom |-> roots.logs_bloom,
     blob_gas_used |-> roots.blob_gas_used,
     excess_blob_gas |-> roots.excess_blob_gas]

\* const OUTPUT_ROOT_VERSION: u8 = 0
OUTPUT_ROOT_VERSION == 0


\* What storage_roots().get(&L2_TO_L1_MESSAGE_PASSER_ADDRESS) may answer:
\* None, a blinded node with its commitment, or a node that is not blinded.
StorageRootsEntries ==
    {<<>>, <<[blinded |-> TRUE, commitment |-> Bytes(32, 1)]>>, <<[blinded |-> FALSE]>>}

\* What get_trie_account(&L2_TO_L1_MESSAGE_PASSER_ADDRESS) may answer:
\* Err, Ok(None) or Ok(Some(account)).
TrieAccounts ==
    {[kind |-> "Err"], [kind |-> "None"], [kind |-> "Some", storage_root |-> Bytes(32, 2)]}

\* The match that yields storage_root
StorageRootLookup(cached, account) ==
    IF IsSome(cached)
    THEN IF cached[1].blinded
         THEN [ok |-> TRUE, root |-> cached[1].commitment]
         ELSE [ok |-> FALSE, error |-> "Account storage root is unblinded"]
    ELSE IF account.kind = "Err"
         THEN [ok |-> FALSE, error |-> "get_trie_account failed"]
    ELSE IF account.kind = "None"
         THEN [ok |-> FALSE, error |-> "L2 to L1 message passer account not found in trie"]
    ELSE [ok |-> TRUE, root |-> account.storage_root]

\* Variant of RawOutput with state root and storage root exchanged.
RawOutputSwapped(state_root, storage_root, block_hash) ==
    [i \in 1..32 |-> IF i = 32 THEN OUTPUT_ROOT_VERSION ELSE 0]
        \o storage_root \o state_root \o <<block_hash>>

\* raw_output: [0u8; 128] with byte 31 the version, bytes 32..64 the state
\* root, 64..96 the storage root, 96..128 the block hash (one 32-byte word).
RawOutput(state_root, storage_root, block_hash) ==
    [i \in 1..32 |-> IF i = 32 THEN OUTPUT_ROOT_VERSION ELSE 0]
        \o state_root \o storage_root \o <<block_hash>>

\* compute_output_root: the result and the lines printed on the way
ComputeOutputRoot(parent, cached, account) ==
    LET lookup == StorageRootLookup(cached, account)
    IN  IF ~lookup.ok
        THEN [result |-> [ok |-> FALSE, error |-> lookup.error],
              stdout |-> <<BeforeLine>>]
        ELSE [result |-> [ok |-> TRUE,
                          value |-> keccak256(RawOutput(parent.header.state_root,
                                                        lookup.root, parent.seal))],
              stdout |-> <<BeforeLine, AfterLine>>]

\* RollupConfig with the given activation times
ForkTimes(regolith, canyon, ecotone) ==
    [regolith_time |-> regolith, canyon_time |-> canyon, ecotone_time |-> ecotone]

\* The configurations and parent headers an executor is built with
\* (payloads have timestamp 20, the first parent has timestamp 18): no fork,
\* Regolith active, Regolith not yet active
ExecutorSetups ==
    {<<ForkTimes(regolith, <<>>, <<>>), seal_slow(GenesisHeader)>> :
        regolith \in {<<>>, <<0>>, <<30>>}}

\* Configurations with the later forks: Regolith alone, Canyon without
\* Regolith and activating with this block, Regolith and Canyon, Ecotone
\* activating with this block, Ecotone active since the parent (whose header then has the Cancun fields),
\* and a chain without Ecotone whose parent header has the Cancun fields
ForkSetups ==
    {<<ForkTimes(<<>>, <<>>, <<>>), seal_slow(GenesisHeader)>>,
     <<ForkTimes(<<0>>, <<>>, <<>>), seal_slow(GenesisHeader)>>,
     <<ForkTimes(<<>>, <<19>>, <<>>), seal_slow(GenesisHeader)>>,
     <<ForkTimes(<<0>>, <<0>>, <<>>), seal_slow(GenesisHeader)>>,
     <<ForkTimes(<<0>>, <<0>>, <<19>>), seal_slow(GenesisHeader)>>,
     <<ForkTimes(<<0>>, <<0>>, <<0>>), seal_slow(EcotoneGenesisHeader)>>,
     <<ForkTimes(<<0>>, <<0>>, <<>>), seal_slow(EcotoneGenesisHeader)>>}

ExIdle ==
    /\ ex_config = [regolith_time |-> <<>>, canyon_time |-> <<>>, ecotone_time |-> <<>>]
    /\ ex_parent = NoValue
    /\ ex_leftover = 0
    /\ ex_pre = {}
    /\ ex_pc = "off"
    /\ ex_payload = NoValue
    /\ ex_block_env = NoValue
    /\ ex_transactions = <<>>
    /\ ex_i = 0
    /\ ex_cumulative_gas_used = 0
    /\ ex_executed = <<>>
    /\ ex_loaded = <<>>
    /\ ex_gas = <<>>
    /\ ex_receipts = <<>>
    /\ ex_status = "none"
    /\ ex_error = ""
    /\ ex_prev_parent = NoValue
    /\ ex_returned = NoValue
    /\ ex_calls = 0
    /\ ex_handed = 0
    /\ ex_failed = FALSE
    /\ ex_output = NoValue
    /\ ex_stdout = <<>>

\* The executor the builder returns: the config, the parent header, a State
\* without transitions.
ExBuilt(setups) ==
    /\ \E setup \in setups :
          /\ ex_config = setup[1]
          /\ ex_parent = setup[2]
    /\ ex_leftover = 0
    /\ ex_pre = {}
    /\ ex_pc = "idle"
    /\ ex_payload = NoValue
    /\ ex_block_env = NoValue
    /\ ex_transactions = <<>>
    /\ ex_i = 0
    /\ ex_cumulative_gas_used = 0
    /\ ex_executed = <<>>
    /\ ex_loaded = <<>>
    /\ ex_gas = <<>>
    /\ ex_receipts = <<>>
    /\ ex_status = "none"
    /\ ex_error = ""
    /\ ex_prev_parent = NoValue
    /\ ex_returned = NoValue
    /\ ex_calls = 0
    /\ ex_handed = 0
    /\ ex_failed = FALSE
    /\ ex_output = NoValue
    /\ ex_stdout = <<>>

ExInit == ExBuilt(ExecutorSetups)

\* The same for a chain with the later forks
ExInitForks == ExBuilt(ForkSetups)

\* The locals of execute_payload go out of scope when it returns.
ExDropLocals ==
    /\ ex_payload' = NoValue
    /\ ex_block_env' = NoValue
    /\ ex_transactions' = <<>>
    /\ ex_i' = 0
    /\ ex_cumulative_gas_used' = 0
    /\ ex_executed' = <<>>
    /\ ex_loaded' = <<>>
    /\ ex_gas' = <<>>
    /\ ex_receipts' = <<>>

\* Variant of ExReturnErr in which the parent header was already replaced
\* when the error is returned.
ExReturnErrAfterSet(msg, leftover) ==
    /\ ex_status' = "Err"
    /\ ex_error' = msg
    /\ ex_failed' = TRUE
    /\ ex_pc' = "idle"
    /\ ex_leftover' = leftover
    /\ ExDropLocals
    /\ ex_parent' = seal_slow([ex_parent.header EXCEPT !.number = @ + 1])
    /\ UNCHANGED ex_returned

\* Variant of ExReturnErr in which the State drops the transitions of the
\* failed call.
ExReturnErrRollingBack(msg, leftover) ==
    /\ ex_status' = "Err"
    /\ ex_error' = msg
    /\ ex_failed' = TRUE
    /\ ex_pc' = "idle"
    /\ ex_leftover' = ex_leftover
    /\ ExDropLocals
    /\ UNCHANGED <<ex_parent, ex_returned>>

\* execute_payload returns Err(msg) (`?`, bail!): the parent header stays,
\* and so do the transitions the State holds (leftover of them).
ExReturnErr(msg, leftover) ==
    /\ ex_status' = "Err"
    /\ ex_error' = msg
    /\ ex_failed' = TRUE
    /\ ex_pc' = "idle"
    /\ ex_leftover' = leftover
    /\ ExDropLocals
    /\ UNCHANGED <<ex_parent, ex_returned>>

\* A panic unwinds through the caller: the instance is gone.
ExPanic ==
    /\ ex_status' = "panic"
    /\ ex_pc' = "panicked"
    /\ UNCHANGED <<ex_error, ex_failed, ex_leftover, ex_parent, ex_returned, ex_payload,
                   ex_block_env, ex_transactions, ex_i, ex_cumulative_gas_used,
                   ex_executed, ex_loaded, ex_gas, ex_receipts>>

\* ensure_create2_deployer_canyon acts on the Canyon activation boundary:
\* Canyon is active at the timestamp of the block and was not at its parent's.
IsCanyonBoundary(config, timestamp, parent_header) ==
    is_canyon_active(config, timestamp) /\ ~is_canyon_active(config, parent_header.timestamp)

\* The steps applied to the State before the transactions: the EIP-4788
\* beacon-root call, then the create2 deployer on the Canyon boundary
PreBlockSteps(config, timestamp, parent_header) ==
    {"beacon_root"} \cup (IF IsCanyonBoundary(config, timestamp, parent_header)
                          THEN {"create2_deployer"} ELSE {})

\* Variant of DecodeAll that hands every raw transaction on as it is.
DecodeAllUnchecked(raw_transactions) == [ok |-> TRUE, transactions |-> raw_transactions]

\* payload.transactions.iter().map(decode_2718).collect::<Result<Vec<_>>>():
\* all the transactions, or the error of the first that does not decode
DecodeAll(raw_transactions) ==
    IF \E k \in 1..Len(raw_transactions) : raw_transactions[k].type = "Undecodable"
    THEN [ok |-> FALSE, transactions |-> <<>>]
    ELSE [ok |-> TRUE, transactions |-> raw_transactions]

\* execute_payload up to the transaction loop: prepare_block_env (which
\* expects the gas limit), the pre-block EIP-4788 call and the Canyon
\* create2 deployer (either may fail), and the decoding of every transaction.
\* The State keeps what the steps before a failure have applied.
ExExecuteStart ==
    /\ ex_pc = "idle"
    /\ ex_calls < MaxCalls
    /\ ex_calls' = ex_calls + 1
    /\ ex_prev_parent' = ex_parent
    /\ \E payload \in Payloads :
          /\ ex_handed + Len(payload.transactions) <= MaxTxs
          /\ ex_handed' = ex_handed + Len(payload.transactions)
          /\ IF ~IsSome(payload.gas_limit)
             THEN /\ ex_status' = "panic"
                  /\ ex_pc' = "panicked"
                  /\ ex_returned' = NoValue
                  /\ ex_payload' = payload
                  /\ UNCHANGED <<ex_error, ex_failed, ex_leftover, ex_pre, ex_parent,
                                 ex_block_env, ex_transactions, ex_i,
                                 ex_cumulative_gas_used, ex_executed, ex_loaded, ex_gas,
                                 ex_receipts>>
             ELSE \/ /\ ExReturnErr("pre-block call failed", ex_leftover)
                     /\ UNCHANGED ex_pre
                  \/ /\ IsCanyonBoundary(ex_config, payload.timestamp, ex_parent.header)
                     /\ ExReturnErr("create2 deployer failed", ex_leftover)
                     /\ ex_pre' = ex_pre \cup {"beacon_root"}
                  \/ /\ ex_pre' = ex_pre \cup PreBlockSteps(ex_config, payload.timestamp,
                                                             ex_parent.header)
                     /\ LET decoded == DecodeAll(payload.transactions)
                        IN  IF ~decoded.ok
                            THEN ExReturnErr("transaction decoding failed", ex_leftover)
                            ELSE /\ ex_payload' = payload
                                 /\ ex_block_env' = prepare_block_env(
                                        revm_spec_id(ex_config, payload.timestamp),
                                        ex_parent.header)
                                 /\ ex_transactions' = decoded.transactions
                                 /\ ex_i' = 1
                                 /\ ex_cumulative_gas_used' = 0
                                 /\ ex_executed' = <<>>
                                 /\ ex_loaded' = <<>>
                                 /\ ex_gas' = <<>>
                                 /\ ex_receipts' = <<>>
                                 /\ ex_status' = "running"
                                 /\ ex_error' = ""
                                 /\ ex_pc' = "loop"
                                 /\ ex_returned' = NoValue
                                 /\ UNCHANGED <<ex_failed, ex_leftover, ex_parent>>
    /\ ex_output' = NoValue
    /\ UNCHANGED <<ex_config, ex_stdout>>
    /\ UNCHANGED <<fpvmVars, zkVars, bpVars, cdVars, hsVars, lruVars, sfVars, syVars>>

\* Variant of AccumulateGas that keeps the gas of the last transaction only.
AccumulateGasLast(cumulative_gas_used, gas_used) == gas_used

\* cumulative_gas_used += result.gas_used()
AccumulateGas(cumulative_gas_used, gas_used) == cumulative_gas_used + gas_used

\* One iteration of the loop over the decoded transactions.
ExTransaction ==
    /\ ex_pc = "loop"
    /\ ex_i <= Len(ex_transactions)
    /\ LET transaction == ex_transactions[ex_i]
           gas_limit == ex_payload.gas_limit[1]
           is_regolith == is_regolith_active(ex_config, ex_payload.timestamp)
           available == block_available_gas(gas_limit, ex_cumulative_gas_used)
           committed == ex_leftover + Len(ex_executed)
       IN  \/ /\ available.wrapped          \* overflow checks on: the subtraction panics
              /\ ExPanic
           \/ IF GasCheckFails(transaction, available, is_regolith)
              THEN ExReturnErr("Transaction gas limit exceeds block gas limit", committed)
              ELSE IF IsEip4844(transaction)
              THEN ExReturnErr("EIP-4844 transactions are not supported", committed)
              ELSE \/ /\ RecoversSigner(transaction)
                      /\ ExReturnErr("Failed to recover signer", committed)
                   \/ ExReturnErr("Fatal EVM Error", committed)
                   \/ \E gas_used \in 0..extract_tx_gas_limit(transaction),
                         load \in IF is_regolith /\ transaction.type = "Deposit"
                                  THEN DepositorLoads ELSE {NoValue} :
                         LET depositor == Depositor(is_regolith, transaction, load)
                             cumulative == AccumulateGas(ex_cumulative_gas_used, gas_used)
                             receipt == receipt_envelope_from_parts(
                                           cumulative,
                                           ResultLogs(ex_i), transaction.type,
                                           DepositNonce(depositor),
                                           DepositReceiptVersion(depositor,
                                              is_canyon_active(ex_config,
                                                               ex_payload.timestamp)))
                         IN  /\ ex_cumulative_gas_used' = cumulative
                             /\ ex_executed' = Append(ex_executed, transaction)
                             /\ ex_loaded' = Append(ex_loaded, load)
                             /\ ex_gas' = Append(ex_gas, gas_used)
                             /\ ex_receipts' = Append(ex_receipts, receipt)
                             /\ ex_i' = ex_i + 1
                             /\ UNCHANGED <<ex_pc, ex_status, ex_error, ex_failed,
                                            ex_leftover, ex_parent, ex_returned,
                                            ex_payload, ex_block_env, ex_transactions>>
    /\ UNCHANGED <<ex_config, ex_pre, ex_prev_parent, ex_calls, ex_handed, ex_output,
                   ex_stdout>>
    /\ UNCHANGED <<fpvmVars, zkVars, bpVars, cdVars, hsVars, lruVars, sfVars, syVars>>

\* After the loop: merge_transitions and take_bundle (every transition the
\* State holds goes into the bundle), state_root(&bundle)?, the new header,
\* seal_slow, set_parent_block_header, Ok(parent_block_header()).
ExSeal ==
    /\ ex_pc = "loop"
    /\ ex_i > Len(ex_transactions)
    /\ \/ ExReturnErr("state root computation failed", 0)
       \/ \E state_root \in StateRoots :
             LET cancun == CancunFields(ex_config, ex_payload.timestamp, ex_parent.header)
                 roots == [receipts_root |->
                              compute_receipts_root(ex_receipts, ex_config,
                                                    ex_payload.timestamp),
                           logs_bloom |-> logs_bloom(FlatLogs(ex_receipts)),
                           blob_gas_used |-> cancun.blob_gas_used,
                           excess_blob_gas |-> cancun.excess_blob_gas]
                 header == NewHeader(ex_parent, ex_payload,
                                     BlockEnvNumber(ex_parent.header),
                                     ex_payload.gas_limit[1],
                                     ex_cumulative_gas_used, state_root, roots)
             IN  /\ ex_parent' = seal_slow(header)
                 /\ ex_returned' = ex_parent'
                 /\ ex_status' = "Ok"
                 /\ ex_pc' = "idle"
                 /\ ex_leftover' = 0
                 /\ ExDropLocals
                 /\ UNCHANGED <<ex_error, ex_failed>>
    /\ ex_pre' = {}
    /\ UNCHANGED <<ex_config, ex_prev_parent, ex_calls, ex_handed, ex_output, ex_stdout>>
    /\ UNCHANGED <<fpvmVars, zkVars, bpVars, cdVars, hsVars, lruVars, sfVars, syVars>>

\* compute_output_root on an executor that is not inside execute_payload.
ExComputeOutputRoot ==
    /\ ex_pc = "idle"
    /\ Cardinality({k \in 1..Len(ex_stdout) : ex_stdout[k] = BeforeLine}) < MaxOutputRoots
    /\ \E cached \in StorageRootsEntries, account \in TrieAccounts :
          LET r == ComputeOutputRoot(ex_parent, cached, account)
          IN  /\ ex_output' = [cached |-> cached, account |-> account,
                               parent |-> ex_parent, after |-> ex_status,
                               result |-> r.result]
              /\ ex_stdout' = ex_stdout \o r.stdout
    /\ UNCHANGED <<ex_config, ex_parent, ex_leftover, ex_pre, ex_pc, ex_payload,
                   ex_block_env, ex_transactions, ex_i, ex_cumulative_gas_used,
                   ex_executed, ex_loaded, ex_gas, ex_receipts,
                   ex_status, ex_error, ex_prev_parent, ex_returned, ex_calls, ex_handed,
                   ex_failed>>
    /\ UNCHANGED <<fpvmVars, zkVars, bpVars, cdVars, hsVars, lruVars, sfVars, syVars>>

ExNext ==
    \/ ExExecuteStart
    \/ ExTransaction
    \/ ExSeal
    \/ ExComputeOutputRoot

\* ------------------------------------------------------------------------
\* CalldataSource: crates/derive/src/sources/calldata.rs
\* ------------------------------------------------------------------------
\* An L1 block holds at most MaxL1Txs transactions.
MaxL1Txs == 3
\* The chain provider fails at most MaxProviderFailures times.
MaxProviderFailures == 2

\* batch_inbox_address and signer, the fields set by new() and never changed
batch_inbox_address == "inbox"
signer == "batcher"

\* The variants of TxEnvelope
L1TxTypes == {"Legacy", "Eip2930", "Eip1559", "Eip4844", "Eip7702"}

\* TxKind::Create and TxKind::Call(to)
TxKindCreate == [kind |-> "Create"]
TxKindCall(to) == [kind |-> "Call", to |-> to]

\* Transactions an L1 block may hold: type, destination, who signed it
\* ("nobody": the signature recovers no address) and input.  Every candidate
\* has an input of its own, so that an item tells which transaction it is
\* from.
L1Transactions ==
    { [type |-> "Legacy",  to |-> TxKindCall("inbox"), signed_by |-> "batcher", input |-> <<1>>],
      [type |-> "Eip2930", to |-> TxKindCall("inbox"), signed_by |-> "batcher", input |-> <<2>>],
      [type |-> "Eip1559", to |-> TxKindCall("inbox"), signed_by |-> "batcher", input |-> <<3>>],
      [type |-> "Eip4844", to |-> TxKindCall("inbox"), signed_by |-> "batcher", input |-> <<4>>],
      [type |-> "Eip7702", to |-> TxKindCall("inbox"), signed_by |-> "batcher", input |-> <<5>>],
      [type |-> "Legacy",  to |-> TxKindCreate,        signed_by |-> "batcher", input |-> <<6>>],
      [type |-> "Eip1559", to |-> TxKindCall("other"), signed_by |-> "batcher", input |-> <<7>>],
      [type |-> "Legacy",  to |-> TxKindCall("inbox"), signed_by |-> "other",   input |-> <<8>>],
      [type |-> "Eip2930", to |-> TxKindCall("inbox"), signed_by |-> "nobody",  input |-> <<9>>] }

\* tx.recover_signer(): Ok(address) or Err
recover_signer(tx) ==
    IF tx.signed_by = "nobody" THEN [ok |-> FALSE] ELSE [ok |-> TRUE, value |-> tx.signed_by]

\* Variant of CalldataOf without the comparison of the recovered signer.
CalldataOfAnySigner(tx) ==
    IF tx.type \notin {"Legacy", "Eip2930", "Eip1559"} THEN <<>>
    ELSE IF tx.to.kind # "Call" THEN <<>>
    ELSE IF tx.to.to # batch_inbox_address THEN <<>>
    ELSE IF ~recover_signer(tx).ok THEN <<>>
    ELSE <<tx.input>>

\* The closure of filter_map: None (<<>>) or Some(data) (<<data>>)
CalldataOf(tx) ==
    IF tx.type \notin {"Legacy", "Eip2930", "Eip1559"} THEN <<>>
    ELSE IF tx.to.kind # "Call" THEN <<>>
    ELSE IF tx.to.to # batch_inbox_address THEN <<>>
    ELSE IF ~recover_signer(tx).ok THEN <<>>
    ELSE IF recover_signer(tx).value # signer THEN <<>>
    ELSE <<tx.input>>

\* txs.iter().filter_map(..).collect::<VecDeque<_>>()
RECURSIVE FilterMapCalldata(_)
FilterMapCalldata(txs) ==
    IF txs = <<>> THEN <<>>
    ELSE CalldataOf(Head(txs)) \o FilterMapCalldata(Tail(txs))

\* PipelineError::Provider(..).temp() and PipelineError::Eof.temp()
temp(error) == [severity |-> "Temporary", error |-> error]

\* Variant of load_calldata that marks the source open before the provider
\* has answered.
load_calldata_opening(self, provided) ==
    IF self.open THEN [self |-> self, ok |-> TRUE, asked |-> FALSE]
    ELSE IF ~provided.ok
    THEN [self |-> [self EXCEPT !.open = TRUE], ok |-> FALSE, asked |-> TRUE]
    ELSE [self |-> [calldata |-> FilterMapCalldata(provided.txs), open |-> TRUE],
          ok |-> TRUE, asked |-> TRUE]

\* load_calldata: provided is what block_info_and_transactions_by_hash
\* answers if it is called, asked tells whether it was called
load_calldata(self, provided) ==
    IF self.open THEN [self |-> self, ok |-> TRUE, asked |-> FALSE]
    ELSE IF ~provided.ok THEN [self |-> self, ok |-> FALSE, asked |-> TRUE]
    ELSE [self |-> [calldata |-> FilterMapCalldata(provided.txs), open |-> TRUE],
          ok |-> TRUE, asked |-> TRUE]

\* What next() answers once load_calldata has returned loaded
NextAfterLoad(loaded) ==
    IF ~loaded.ok
    THEN [self |-> loaded.self, asked |-> loaded.asked,
          result |-> [ok |-> FALSE, err |-> temp("Provider")]]
    ELSE IF loaded.self.calldata = <<>>
    THEN [self |-> loaded.self, asked |-> loaded.asked,
          result |-> [ok |-> FALSE, err |-> temp("Eof")]]
    ELSE [self |-> [loaded.self EXCEPT !.calldata = Tail(@)], asked |-> loaded.asked,
          result |-> [ok |-> TRUE, value |-> Head(loaded.self.calldata)]]

\* Variant of calldata_next that loads on every call.
calldata_next_reloading(self, provided) ==
    NextAfterLoad(load_calldata([self EXCEPT !.open = FALSE], provided))

\* AsyncIterator::next
calldata_next(self, provided) == NextAfterLoad(load_calldata(self, provided))

CdIdle ==
    /\ cd_txs = <<>>
    /\ cd_pc = "off"
    /\ cd_self = [calldata |-> <<>>, open |-> FALSE]
    /\ cd_last = NoValue
    /\ cd_yielded = <<>>
    /\ cd_failures = 0
    /\ cd_asked = 0

\* CalldataSource::new for an L1 block with the transactions cd_txs
CdInit ==
    /\ cd_txs \in SeqsUpTo(L1Transactions, MaxL1Txs)
    /\ cd_pc = "ready"
    /\ cd_self = [calldata |-> <<>>, open |-> FALSE]
    /\ cd_last = NoValue
    /\ cd_yielded = <<>>
    /\ cd_failures = 0
    /\ cd_asked = 0

\* One call of next(): the chain provider, if asked, answers with the
\* block's transactions or fails.
CdCallNext ==
    /\ cd_pc = "ready"
    /\ \E provided \in {[ok |-> TRUE, txs |-> cd_txs]}
                      \cup (IF cd_failures < MaxProviderFailures
                            THEN {[ok |-> FALSE]} ELSE {}) :
          LET r == calldata_next(cd_self, provided)
          IN  /\ cd_self' = r.self
              /\ cd_last' = r.result
              /\ cd_yielded' = IF r.result.ok THEN Append(cd_yielded, r.result.value)
                                ELSE cd_yielded
              /\ cd_failures' = IF ~cd_self.open /\ ~provided.ok THEN cd_failures + 1
                                 ELSE cd_failures
              /\ cd_asked' = IF r.asked THEN cd_asked + 1 ELSE cd_asked
    /\ UNCHANGED <<cd_txs, cd_pc>>
    /\ UNCHANGED <<fpvmVars, zkVars, bpVars, exVars, hsVars, lruVars, sfVars, syVars>>

CdNext ==
    \/ CdCallNext

\* ------------------------------------------------------------------------
\* Host: bin/host/src/lib.rs
\* ------------------------------------------------------------------------
\* The child process exits with a code in 0..MaxExitCode or is killed by a
\* signal.
MaxExitCode == 2

\* Result<()> values: Ok(()) and Err(anyhow!(message))
HsOk == [ok |-> TRUE]
HsErr(message) == [ok |-> FALSE, error |-> message]

\* How a task (or a call) ended: it returned a value or it panicked
Returned(value) == [kind |-> "returned", value |-> value]
Panicked == [kind |-> "panicked"]

\* How PreimageServer::start may end
StartOutcomes == {"Ok", "Err", "panic"}

\* start_native_preimage_server: AssertUnwindSafe(server.start())
\* .catch_unwind().await.map_err(..)?.map_err(..)?; Ok(())
start_native_preimage_server(outcome) ==
    IF outcome = "panic" THEN Returned(HsErr("Preimage server panicked"))
    ELSE IF outcome = "Err" THEN Returned(HsErr("Preimage server exited with an error"))
    ELSE Returned(HsOk)

\* start_server from `server.start().await?` on: nothing catches a panic
start_server(outcome) ==
    IF outcome = "panic" THEN Panicked
    ELSE IF outcome = "Err" THEN Returned(HsErr("server.start() failed"))
    ELSE Returned(HsOk)

\* ExitStatus of the child: a code, or none when a signal ended it
ExitStatuses == {[code |-> <<c>>] : c \in 0..MaxExitCode} \cup {[code |-> <<>>]}

\* ExitStatus::success
success(status) == status.code = <<0>>

\* Variant of ClientProgramResult that also accepts exit code 1.
ClientProgramResultLenient(status) ==
    IF ~(success(status) \/ status.code = <<1>>)
    THEN HsErr("Client program exited with a non-zero status.")
    ELSE HsOk

\* start_native_client_program once the child has exited
ClientProgramResult(status) ==
    IF ~success(status)
    THEN HsErr("Client program exited with a non-zero status.")
    ELSE HsOk

\* util::flatten_join_result: the task's own result, or an Err for a task
\* that panicked (JoinError)
flatten_join_result(task) ==
    IF task.kind = "panicked" THEN HsErr("task panicked") ELSE task.value

\* A task that has not ended: not spawned, running, or (the client task)
\* before and after the start of the child
TaskIn(position) == [kind |-> position]

HsEnded(task) == task.kind \in {"returned", "panicked"}

HsIdle ==
    /\ hs_mode = "off"
    /\ hs_exec = <<>>
    /\ hs_pc = "setup"
    /\ hs_ret = NoValue
    /\ hs_start = "none"
    /\ hs_server_task = TaskIn("unspawned")
    /\ hs_program_task = TaskIn("unspawned")
    /\ hs_status = <<>>
    /\ hs_seen = NoValue

\* The host is entered through start_server or through
\* start_server_and_native_client, with or without a client binary path.
HsInit ==
    /\ hs_mode \in {"server", "native"}
    /\ hs_exec \in {<<>>, <<"client">>}
    /\ hs_pc = "setup"
    /\ hs_ret = NoValue
    /\ hs_start = "none"
    /\ hs_server_task = TaskIn("unspawned")
    /\ hs_program_task = TaskIn("unspawned")
    /\ hs_status = <<>>
    /\ hs_seen = NoValue

\* start_server up to `server.start()`: construct_fetcher().await? may fail
HsServerSetup ==
    /\ hs_mode = "server"
    /\ hs_pc = "setup"
    /\ \/ /\ hs_pc' = "returned"
          /\ hs_ret' = HsErr("construct_fetcher failed")
       \/ /\ hs_pc' = "serving"
          /\ UNCHANGED hs_ret
    /\ UNCHANGED <<hs_mode, hs_exec, hs_start, hs_server_task, hs_program_task,
                   hs_status, hs_seen>>
    /\ UNCHANGED <<fpvmVars, zkVars, bpVars, exVars, cdVars, lruVars, sfVars, syVars>>

\* start_server: server.start().await? ends, then Ok(())
HsServerServe ==
    /\ hs_mode = "server"
    /\ hs_pc = "serving"
    /\ \E outcome \in StartOutcomes :
          /\ hs_start' = outcome
          /\ IF start_server(outcome).kind = "panicked"
             THEN /\ hs_pc' = "unwound"
                  /\ UNCHANGED hs_ret
             ELSE /\ hs_pc' = "returned"
                  /\ hs_ret' = start_server(outcome).value
    /\ UNCHANGED <<hs_mode, hs_exec, hs_server_task, hs_program_task, hs_status,
                   hs_seen>>
    /\ UNCHANGED <<fpvmVars, zkVars, bpVars, exVars, cdVars, lruVars, sfVars, syVars>>

\* start_server_and_native_client up to try_join!: create_native_pipes()? and
\* construct_fetcher().await? may fail, else both tasks are spawned
HsNativeSetup ==
    /\ hs_mode = "native"
    /\ hs_pc = "setup"
    /\ \/ /\ hs_pc' = "returned"
          /\ hs_ret' \in {HsErr("create_native_pipes failed"),
                          HsErr("construct_fetcher failed")}
          /\ UNCHANGED <<hs_server_task, hs_program_task>>
       \/ /\ hs_pc' = "joining"
          /\ hs_server_task' = TaskIn("running")
          /\ hs_program_task' = TaskIn("starting")
          /\ UNCHANGED hs_ret
    /\ UNCHANGED <<hs_mode, hs_exec, hs_start, hs_status, hs_seen>>
    /\ UNCHANGED <<fpvmVars, zkVars, bpVars, exVars, cdVars, lruVars, sfVars, syVars>>

\* The server task: start_native_preimage_server runs to its end
HsServerTask ==
    /\ hs_server_task = TaskIn("running")
    /\ \E outcome \in StartOutcomes :
          /\ hs_start' = outcome
          /\ hs_server_task' = start_native_preimage_server(outcome)
    /\ UNCHANGED <<hs_mode, hs_exec, hs_pc, hs_ret, hs_program_task, hs_status, hs_seen>>
    /\ UNCHANGED <<fpvmVars, zkVars, bpVars, exVars, cdVars, lruVars, sfVars, syVars>>

\* The client task up to the start of the child: no binary path (Err), a
\* failed fd mapping (expect / unwrap: the task panics), a child that cannot
\* be executed (Err), or a running child
HsClientStart ==
    /\ hs_program_task = TaskIn("starting")
    /\ IF hs_exec = <<>>
       THEN hs_program_task' = Returned(HsErr("No client program binary path specified."))
       ELSE hs_program_task' \in {Panicked,
                                  Returned(HsErr("Failed to execute client program")),
                                  TaskIn("child")}
    /\ UNCHANGED <<hs_mode, hs_exec, hs_pc, hs_ret, hs_start, hs_server_task, hs_status,
                   hs_seen>>
    /\ UNCHANGED <<fpvmVars, zkVars, bpVars, exVars, cdVars, lruVars, sfVars, syVars>>

\* The child exits: command.status().await is Ok(status)
HsClientExit ==
    /\ hs_program_task = TaskIn("child")
    /\ \E status \in ExitStatuses :
          /\ hs_status' = <<status>>
          /\ hs_program_task' = Returned(ClientProgramResult(status))
    /\ UNCHANGED <<hs_mode, hs_exec, hs_pc, hs_ret, hs_start, hs_server_task, hs_seen>>
    /\ UNCHANGED <<fpvmVars, zkVars, bpVars, exVars, cdVars, lruVars, sfVars, syVars>>

\* tokio::try_join!(flatten_join_result(server_task),
\* flatten_join_result(program_task)).map_err(..)?; Ok(()): it returns the
\* Err of a task that has ended with one as soon as it sees it, and Ok once
\* both have ended with Ok
HsTryJoin ==
    /\ hs_mode = "native"
    /\ hs_pc = "joining"
    /\ LET ended == {t \in {hs_server_task, hs_program_task} : HsEnded(t)}
           failed == {t \in ended : ~flatten_join_result(t).ok}
       IN  \/ /\ failed # {}
              /\ \E t \in failed : hs_ret' = flatten_join_result(t)
           \/ /\ failed = {}
              /\ HsEnded(hs_server_task) /\ HsEnded(hs_program_task)
              /\ hs_ret' = HsOk
    /\ hs_pc' = "returned"
    /\ hs_seen' = [server |-> hs_server_task, program |-> hs_program_task]
    /\ UNCHANGED <<hs_mode, hs_exec, hs_start, hs_server_task, hs_program_task,
                   hs_status>>
    /\ UNCHANGED <<fpvmVars, zkVars, bpVars, exVars, cdVars, lruVars, sfVars, syVars>>

HsNext ==
    \/ HsServerSetup
    \/ HsServerServe
    \/ HsNativeSetup
    \/ HsServerTask
    \/ HsClientStart
    \/ HsClientExit
    \/ HsTryJoin

\* ------------------------------------------------------------------------
\* CachingOracle: an LRU entries in front of the oracle reader
\* ------------------------------------------------------------------------
\* const ORACLE_LRU_SIZE: usize = 1024, scaled.
ORACLE_LRU_SIZE == 2
\* An oracle serves at most MaxGets calls of get.
MaxGets == 4

\* The keys asked for: one more than the entries can hold
LruKeys == 1..(ORACLE_LRU_SIZE + 1)

\* The preimage the host serves for a key
OraclePreimage(key) == <<key, key>>

\* The keys of the entries of the cache
CachedKeys(entries) == {entries[i].key : i \in DOMAIN entries}

\* The cache without the entry of key
LruWithout(entries, key) == SelectSeq(entries, LAMBDA e : e.key # key)

\* The entry of key (key is cached)
LruEntry(entries, key) == entries[CHOOSE i \in DOMAIN entries : entries[i].key = key]

\* Variant of LruPromote in which a read leaves the order as it is.
LruKeepOrder(entries, key) == entries

\* LruCache::get: the entry read becomes the most recently used
LruPromote(entries, key) == <<LruEntry(entries, key)>> \o LruWithout(entries, key)

\* LruCache::put of a key that is not cached: at capacity the least recently
\* used entry (the last) is dropped, the new entry is the most recently used
LruPut(entries, capacity, key, value) ==
    <<[key |-> key, value |-> value]>>
    \o (IF Len(entries) >= capacity THEN SubSeq(entries, 1, Len(entries) - 1) ELSE entries)

\* CachingOracle::get(key): a hit returns the cached bytes; a miss asks the
\* oracle reader (served tells whether it answers) and inserts the answer
CachingOracleGet(entries, capacity, key, served) ==
    IF key \in CachedKeys(entries)
    THEN [cache |-> LruPromote(entries, key), io |-> 0, outcome |-> "hit",
          result |-> [ok |-> TRUE, value |-> LruEntry(entries, key).value]]
    ELSE IF served
    THEN [cache |-> LruPut(entries, capacity, key, OraclePreimage(key)), io |-> 1,
          outcome |-> "miss",
          result |-> [ok |-> TRUE, value |-> OraclePreimage(key)]]
    ELSE [cache |-> entries, io |-> 1, outcome |-> "error", result |-> [ok |-> FALSE]]

LruIdle ==
    /\ lru_pc = "off"
    /\ lru_cache = <<>>
    /\ lru_reads = 0
    /\ lru_log = <<>>
    /\ lru_last = NoValue

\* CachingOracle::new(ORACLE_LRU_SIZE, ..): an empty cache
LruInit ==
    /\ lru_pc = "ready"
    /\ lru_cache = <<>>
    /\ lru_reads = 0
    /\ lru_log = <<>>
    /\ lru_last = NoValue

\* One call of get.
LruGet ==
    /\ lru_pc = "ready"
    /\ Len(lru_log) < MaxGets
    /\ \E key \in LruKeys, served \in BOOLEAN :
          LET r == CachingOracleGet(lru_cache, ORACLE_LRU_SIZE, key, served)
          IN  /\ key \in CachedKeys(lru_cache) => served
              /\ lru_cache' = r.cache
              /\ lru_reads' = lru_reads + r.io
              /\ lru_log' = Append(lru_log, [key |-> key, outcome |-> r.outcome])
              /\ lru_last' = r.result
    /\ UNCHANGED lru_pc
    /\ UNCHANGED <<fpvmVars, zkVars, bpVars, exVars, cdVars, hsVars, sfVars, syVars>>

LruNext ==
    \/ LruGet

\* ------------------------------------------------------------------------
\* One CachingOracle shared by several callers
\* ------------------------------------------------------------------------
\* The oracle is shared by MaxCallers callers
MaxCallers == 2
\* which call get at most MaxAsks times altogether.
MaxAsks == 3

\* The L1 provider, the L2 provider, the blob provider, the driver
Callers == 1..MaxCallers

CallerIdle == [pc |-> "idle", key |-> 0]

\* Variant of MustWait in which no caller waits for a fetch under way.
MustWaitNever(inflight, key) == FALSE

\* A caller waits if the key it asks for is being fetched
MustWait(inflight, key) == inflight[key] > 0

\* The lookup a caller makes when it calls get and when it resumes after a
\* wait: a hit returns the cached bytes, a key being fetched makes it
\* wait, otherwise it sends the request to the host
SfLookup(c, key, waited) ==
    IF key \in CachedKeys(sf_cache)
    THEN /\ sf_cache' = LruPromote(sf_cache, key)
         /\ sf_callers' = [sf_callers EXCEPT ![c] = CallerIdle]
         /\ sf_last' = [caller |-> c, key |-> key, outcome |-> "hit",
                        value |-> LruEntry(sf_cache, key).value, waited |-> waited]
         /\ UNCHANGED sf_inflight
    ELSE IF MustWait(sf_inflight, key)
    THEN /\ sf_callers' = [sf_callers EXCEPT ![c] = [pc |-> "waiting", key |-> key]]
         /\ UNCHANGED <<sf_cache, sf_inflight, sf_last>>
    ELSE /\ sf_callers' = [sf_callers EXCEPT ![c] = [pc |-> "fetching", key |-> key]]
         /\ sf_inflight' = [sf_inflight EXCEPT ![key] = @ + 1]
         /\ UNCHANGED <<sf_cache, sf_last>>

SfIdle ==
    /\ sf_pc = "off"
    /\ sf_cache = <<>>
    /\ sf_inflight = <<>>
    /\ sf_callers = <<>>
    /\ sf_calls = 0
    /\ sf_last = NoValue

\* CachingOracle::new and the clones of the Arc handed to the providers
SfInit ==
    /\ sf_pc = "ready"
    /\ sf_cache = <<>>
    /\ sf_inflight = [k \in LruKeys |-> 0]
    /\ sf_callers = [c \in Callers |-> CallerIdle]
    /\ sf_calls = 0
    /\ sf_last = NoValue

\* A caller calls get(key).
SfCall ==
    /\ sf_pc = "ready"
    /\ sf_calls < MaxAsks
    /\ \E c \in Callers, key \in LruKeys :
          /\ sf_callers[c].pc = "idle"
          /\ SfLookup(c, key, FALSE)
    /\ sf_calls' = sf_calls + 1
    /\ UNCHANGED sf_pc
    /\ UNCHANGED <<fpvmVars, zkVars, bpVars, exVars, cdVars, hsVars, lruVars, syVars>>

\* The host answers the request of a caller, or the request fails: the
\* answer is inserted and returned, a failure is returned.
SfComplete ==
    /\ sf_pc = "ready"
    /\ \E c \in Callers, served \in BOOLEAN :
          LET key == sf_callers[c].key
          IN  /\ sf_callers[c].pc = "fetching"
              /\ sf_inflight' = [sf_inflight EXCEPT ![key] = @ - 1]
              /\ sf_callers' = [sf_callers EXCEPT ![c] = CallerIdle]
              /\ IF served
                 THEN /\ sf_cache' = IF key \in CachedKeys(sf_cache)
                                     THEN LruPromote(sf_cache, key)
                                     ELSE LruPut(sf_cache, ORACLE_LRU_SIZE, key,
                                                 OraclePreimage(key))
                      /\ sf_last' = [caller |-> c, key |-> key, outcome |-> "miss",
                                     value |-> OraclePreimage(key), waited |-> FALSE]
                 ELSE /\ sf_last' = [caller |-> c, key |-> key, outcome |-> "error",
                                     value |-> <<>>, waited |-> FALSE]
                      /\ UNCHANGED sf_cache
    /\ UNCHANGED <<sf_pc, sf_calls>>
    /\ UNCHANGED <<fpvmVars, zkVars, bpVars, exVars, cdVars, hsVars, lruVars, syVars>>

\* A caller that waited goes on once the fetch it waited for is over.
SfResume ==
    /\ sf_pc = "ready"
    /\ \E c \in Callers :
          /\ sf_callers[c].pc = "waiting"
          /\ sf_inflight[sf_callers[c].key] = 0
          /\ SfLookup(c, sf_callers[c].key, TRUE)
    /\ UNCHANGED <<sf_pc, sf_calls>>
    /\ UNCHANGED <<fpvmVars, zkVars, bpVars, exVars, cdVars, hsVars, lruVars, syVars>>

SfNext ==
    \/ SfCall
    \/ SfComplete
    \/ SfResume

\* ------------------------------------------------------------------------
\* The sync loop: bin/sync/src/main.rs
\* ------------------------------------------------------------------------
\* The loop is followed for MaxRounds passes.
MaxRounds == 4

SyIdle ==
    /\ sy_pc = "off"
    /\ sy_cursor = 0
    /\ sy_prepared = <<>>
    /\ sy_attributes = <<>>
    /\ sy_valid = "none"
    /\ sy_derived_attributes_count = 0
    /\ sy_rounds = 0
    /\ sy_passed = 0
    /\ sy_rejected = 0
    /\ sy_updates = 0
    /\ sy_step_errors = 0
    /\ sy_fetch_errors = 0

\* sync() up to the loop: the pipeline starts at block `start` (here 0)
\* with nothing prepared, derived_attributes_count = 0.
SyInit ==
    /\ sy_pc = "step"
    /\ sy_cursor = 0
    /\ sy_prepared = <<>>
    /\ sy_attributes = <<>>
    /\ sy_valid = "none"
    /\ sy_derived_attributes_count = 0
    /\ sy_rounds = 0
    /\ sy_passed = 0
    /\ sy_rejected = 0
    /\ sy_updates = 0
    /\ sy_step_errors = 0
    /\ sy_fetch_errors = 0

\* What pipeline.step() may do: prepare the attributes that follow the
\* cursor, return Ok without preparing any, or return Err
StepOutcomes == {"prepared", "nothing", "error"}

\* DerivationPipeline::step on the queue of prepared attributes
PipelineStep(prepared, cursor, outcome) ==
    IF outcome = "prepared" THEN Append(prepared, [parent |-> cursor]) ELSE prepared

\* Variant of AfterStep in which the error of the step is returned with `?`.
AfterStepPropagating(outcome) == IF outcome = "error" THEN "returned" ELSE "pop"

\* match pipeline.step().await: both arms log and go on
AfterStep(outcome) == "pop"

\* L2ChainProvider::l2_block_info_by_number(number): the block info of that
\* number, or an error
BlockInfoAnswers(number) == {[ok |-> TRUE, bi |-> [number |-> number]], [ok |-> FALSE]}

\* The top of the loop and pipeline.step().await
SyStep ==
    /\ sy_pc = "step"
    /\ sy_rounds < MaxRounds
    /\ sy_rounds' = sy_rounds + 1
    /\ \E outcome \in StepOutcomes :
          /\ sy_prepared' = PipelineStep(sy_prepared, sy_cursor, outcome)
          /\ sy_step_errors' = IF outcome = "error" THEN sy_step_errors + 1
                               ELSE sy_step_errors
          /\ sy_pc' = AfterStep(outcome)
    /\ sy_attributes' = <<>>
    /\ sy_valid' = "none"
    /\ UNCHANGED <<sy_cursor, sy_derived_attributes_count, sy_passed, sy_rejected,
                   sy_updates, sy_fetch_errors>>
    /\ UNCHANGED <<fpvmVars, zkVars, bpVars, exVars, cdVars, hsVars, lruVars, sfVars>>

\* if let Some(attributes) = pipeline.pop()
SyPop ==
    /\ sy_pc = "pop"
    /\ IF sy_prepared = <<>>
       THEN /\ sy_pc' = "step"
            /\ UNCHANGED <<sy_prepared, sy_attributes>>
       ELSE /\ sy_attributes' = <<Head(sy_prepared)>>
            /\ sy_prepared' = Tail(sy_prepared)
            /\ sy_pc' = "validate"
    /\ UNCHANGED <<sy_cursor, sy_valid, sy_derived_attributes_count, sy_rounds, sy_passed,
                   sy_rejected, sy_updates, sy_step_errors, sy_fetch_errors>>
    /\ UNCHANGED <<fpvmVars, zkVars, bpVars, exVars, cdVars, hsVars, lruVars, sfVars>>

\* validator.validate(&attributes).await: on false `continue`, on true
\* derived_attributes_count += 1 and the request for the next block info
SyValidate ==
    /\ sy_pc = "validate"
    /\ \E valid \in BOOLEAN :
          IF ~valid
          THEN /\ sy_valid' = "failed"
               /\ sy_rejected' = sy_rejected + 1
               /\ sy_pc' = "step"
               /\ UNCHANGED <<sy_derived_attributes_count, sy_passed>>
          ELSE /\ sy_valid' = "passed"
               /\ sy_passed' = sy_passed + 1
               /\ sy_derived_attributes_count' = sy_derived_attributes_count + 1
               /\ sy_pc' = "fetch"
               /\ UNCHANGED sy_rejected
    /\ UNCHANGED <<sy_cursor, sy_prepared, sy_attributes, sy_rounds, sy_updates,
                   sy_step_errors, sy_fetch_errors>>
    /\ UNCHANGED <<fpvmVars, zkVars, bpVars, exVars, cdVars, hsVars, lruVars, sfVars>>

\* match l2_provider.l2_block_info_by_number(cursor number + 1).await:
\* Ok(bi) => pipeline.update_cursor(bi), Err(e) => error!(..); dbg!
SyFetch ==
    /\ sy_pc = "fetch"
    /\ \E answer \in BlockInfoAnswers(sy_cursor + 1) :
          IF answer.ok
          THEN /\ sy_cursor' = answer.bi.number
               /\ sy_updates' = sy_updates + 1
               /\ UNCHANGED sy_fetch_errors
          ELSE /\ sy_fetch_errors' = sy_fetch_errors + 1
               /\ UNCHANGED <<sy_cursor, sy_updates>>
    /\ sy_pc' = "step"
    /\ UNCHANGED <<sy_prepared, sy_attributes, sy_valid, sy_derived_attributes_count,
                   sy_rounds, sy_passed, sy_rejected, sy_step_errors>>
    /\ UNCHANGED <<fpvmVars, zkVars, bpVars, exVars, cdVars, hsVars, lruVars, sfVars>>

SyNext ==
    \/ SyStep
    \/ SyPop
    \/ SyValidate
    \/ SyFetch

\* ------------------------------------------------------------------------
\* Specifications
\* ------------------------------------------------------------------------
\* The FPVM client
InitFpvm == FpvmInit /\ ZkIdle /\ BpIdle /\ ExIdle /\ CdIdle /\ HsIdle /\ LruIdle /\ SfIdle /\ SyIdle
SpecFpvm == InitFpvm /\ [][FpvmNext]_vars

\* The zkVM client
InitZk == ZkInit /\ FpvmIdle /\ BpIdle /\ ExIdle /\ CdIdle /\ HsIdle /\ LruIdle /\ SfIdle /\ SyIdle
SpecZk == InitZk /\ [][ZkNext]_vars

\* One call of get_blob
InitBlob == BpInit /\ FpvmIdle /\ ZkIdle /\ ExIdle /\ CdIdle /\ HsIdle /\ LruIdle /\ SfIdle /\ SyIdle
SpecBlob == InitBlob /\ [][BpNext]_vars

\* One executor instance
InitExec == ExInit /\ FpvmIdle /\ ZkIdle /\ BpIdle /\ CdIdle /\ HsIdle /\ LruIdle /\ SfIdle /\ SyIdle
SpecExec == InitExec /\ [][ExNext]_vars

\* One StatelessL2BlockExecutor on a chain with Canyon and Ecotone
InitForks == ExInitForks /\ FpvmIdle /\ ZkIdle /\ BpIdle /\ CdIdle /\ HsIdle /\ LruIdle /\ SfIdle /\ SyIdle
SpecForks == InitForks /\ [][ExNext]_vars

\* One CachingOracle
InitLru == LruInit /\ FpvmIdle /\ ZkIdle /\ BpIdle /\ ExIdle /\ CdIdle /\ HsIdle /\ SfIdle /\ SyIdle
SpecLru == InitLru /\ [][LruNext]_vars

\* One CachingOracle and its callers
InitShared == SfInit /\ FpvmIdle /\ ZkIdle /\ BpIdle /\ ExIdle /\ CdIdle /\ HsIdle /\ LruIdle /\ SyIdle
SpecShared == InitShared /\ [][SfNext]_vars

\* The sync binary
InitSync ==
    SyInit /\ FpvmIdle /\ ZkIdle /\ BpIdle /\ ExIdle /\ CdIdle /\ HsIdle /\ LruIdle /\ SfIdle
SpecSync == InitSync /\ [][SyNext]_vars

\* One CalldataSource
InitCalldata == CdInit /\ FpvmIdle /\ ZkIdle /\ BpIdle /\ ExIdle /\ HsIdle /\ LruIdle /\ SfIdle /\ SyIdle
SpecCalldata == InitCalldata /\ [][CdNext]_vars

\* One run of the host
InitHost == HsInit /\ FpvmIdle /\ ZkIdle /\ BpIdle /\ ExIdle /\ CdIdle /\ LruIdle /\ SfIdle /\ SyIdle
SpecHost == InitHost /\ [][HsNext]_vars

\* The zkVM client up to the return of verify(), on stores with two entries
\* for one blob slot
InitVerify == ZkInitSlot /\ FpvmIdle /\ BpIdle /\ ExIdle /\ CdIdle /\ HsIdle /\ LruIdle /\ SfIdle /\ SyIdle
SpecVerify == InitVerify /\ [][ZkVerifyNext]_vars

Init == InitZk
Next == ZkNext
Spec == Init /\ [][Next]_vars

\* ------------------------------------------------------------------------
\* Properties of the FPVM client
\* ------------------------------------------------------------------------
\* The lines of stdout written by the epilogue, oldest first.
IsVerdictLine(line) ==
    line[1] \in {"Failed to validate L2 block #", "Successfully validated L2 block #"}

VerdictLines(out) == SelectSeq(out, IsVerdictLine)

\* C1: once produce_output has returned (number, output_root), the failure
\* line is printed and exit(1) is called if and only if number differs from
\* l2_claim_block or output_root differs from l2_claim; otherwise the
\* success line is printed and main returns Ok.  Never the success line on a
\* mismatch, never the failure line on a match.
C1_EpilogueVerdict ==
    (fpvm_pc = "done" /\ fpvm_out # NoValue) =>
        LET n == fpvm_out.number
            r == fpvm_out.output_root
        IN  IF n # boot.l2_claim_block \/ r # boot.l2_claim
            THEN /\ VerdictLines(fpvm_stdout) = <<FailedLine(n, r)>>
                 /\ fpvm_exit = <<1>>
                 /\ fpvm_result = "none"
            ELSE /\ VerdictLines(fpvm_stdout) = <<SuccessLine(n, r)>>
                 /\ fpvm_exit = <<>>
                 /\ fpvm_result = "Ok"

\* A run whose block number matches the claim and whose output root does not.
C1_Witness ==
    /\ fpvm_pc = "done"
    /\ fpvm_out # NoValue
    /\ fpvm_out.number = boot.l2_claim_block
    /\ fpvm_out.output_root # boot.l2_claim
    /\ fpvm_exit = <<1>>

\* C19: a successful run of the FPVM client has written exactly one line to
\* stdout, the success line for the pair it computed; no other step of the
\* run, computing the output root included, has written to stdout.
C19_SingleStdoutLine ==
    (fpvm_pc = "done" /\ fpvm_result = "Ok") =>
        fpvm_stdout = <<SuccessLine(fpvm_out.number, fpvm_out.output_root)>>

\* ------------------------------------------------------------------------
\* Properties of the zkVM client and of InMemoryOracle::verify
\* ------------------------------------------------------------------------
\* C2: a preimage is read from the in-memory oracle only after verify() has
\* returned Ok; when verify() fails the run is aborted and nothing is read.
C2_VerifyBeforeReads ==
    /\ (reads > 0 \/ last_get # NoValue) => verify_result = "Ok"
    /\ verify_result \in {"Err", "panic"} => (zk_pc = "panic" /\ reads = 0)
    /\ zk_pc \in {"run", "epilogue", "done"} => verify_result = "Ok"

\* A preimage was read after a successful verify() of a non-empty store.
C2_Witness ==
    /\ verify_result = "Ok"
    /\ reads > 0
    /\ last_get # NoValue

\* C3: after a successful verify(), every Keccak256 entry has the key built
\* from keccak256(value) and every Sha256 entry the key built from
\* sha256(value); so does every value a later get returns for such a key.
\* (Contrapositive: one entry breaking its rule makes verify() fail.)
C3_DigestIntegrity ==
    verify_result = "Ok" =>
        /\ \A k \in DOMAIN cache :
              /\ k.type = "Keccak256" =>
                    k = [type |-> "Keccak256", body |-> keccak256(cache[k]).body]
              /\ k.type = "Sha256" =>
                    k = [type |-> "Sha256", body |-> sha256(cache[k]).body]
        /\ last_get # NoValue =>
              /\ last_get.key.type = "Keccak256" =>
                    last_get.key.body = keccak256(last_get.value).body
              /\ last_get.key.type = "Sha256" =>
                    last_get.key.body = sha256(last_get.value).body

\* A verified store with a Keccak256 and a Sha256 entry, one of them read.
C3_Witness ==
    /\ verify_result = "Ok"
    /\ \E k \in DOMAIN cache : k.type = "Keccak256"
    /\ \E k \in DOMAIN cache : k.type = "Sha256"
    /\ last_get # NoValue
    /\ last_get.key.type = "Sha256"

\* C4 (as claimed): verify() returns Ok only if every blob reconstructed
\* during the scan passes verify_blob_kzg_proof(data, commitment, proof).
C4_KzgChecked ==
    verify_result = "Ok" =>
        \A c \in DOMAIN blobs :
            verify_blob_kzg_proof(blobs[c].data, c, blobs[c].kzg_proof)

\* Flip the lowest bit of byte i of the value stored under key k.
FlipBit(c, k, i) ==
    [c EXCEPT ![k] = [c[k] EXCEPT ![i] = IF c[k][i] % 2 = 0 THEN c[k][i] + 1
                                         ELSE c[k][i] - 1]]

\* Outcome of verify() on store c when the entries are visited in the order
\* CHOOSE fixes: "Ok", "Err" or "panic".
RECURSIVE VerifyScan(_, _, _)
VerifyScan(c, bl, keys) ==
    IF keys = {} THEN VerifyBlobsAfterScan(bl)
    ELSE LET k == CHOOSE x \in keys : TRUE
             r == VerifyEntry(c, bl, k)
         IN  IF r.status = "continue" THEN VerifyScan(c, r.blobs, keys \ {k})
             ELSE IF r.status = "err" THEN "Err" ELSE "panic"

\* C5 (as claimed): on a store that verify() accepts, flipping one bit of
\* the value of any one entry makes verify() fail.  Stated for the entries
\* verify() is to check, i.e. all but the Local ones (public inputs).
C5_BitFlipDetected ==
    verify_result = "Ok" =>
        \A k \in DOMAIN cache : \A i \in 1..Len(cache[k]) :
            k.type # "Local" =>
                VerifyScan(FlipBit(cache, k, i), <<>>, DOMAIN cache) # "Ok"

\* C6 (as claimed): after the scan, every Blob entry whose sibling encodes
\* (commitment, index) with index < 4096 has its value at bytes
\* [32*index, 32*index+32) of the blob reconstructed for that commitment.
C6_ElementStored ==
    verify_result = "Ok" =>
        \A k \in DOMAIN cache :
            LET sib == [type |-> "Keccak256", body |-> k.body]
            IN  (k.type = "Blob" /\ sib \in DOMAIN cache
                    /\ U64FromBE(SubSeq(cache[sib], 73, 80)) < 4096) =>
                LET c == SubSeq(cache[sib], 1, 48)
                    index == U64FromBE(SubSeq(cache[sib], 73, 80))
                IN  /\ c \in DOMAIN blobs
                    /\ 32 * index + 32 <= BlobDataLen
                    /\ \A j \in 0..31 :
                          DataByte(blobs[c].data, 32 * index + j) = cache[k][j + 1]

\* C7: after a successful verify(), every Precompile entry has a sibling
\* Keccak256 entry with the same key body, and its value is the output of
\* the precompile run on the sibling's data.
C7_PrecompileChecked ==
    verify_result = "Ok" =>
        \A k \in DOMAIN cache :
            k.type = "Precompile" =>
                LET sib == [type |-> "Keccak256", body |-> k.body]
                IN  /\ sib \in DOMAIN cache
                    /\ PrecompileFromBytes(cache[sib]) # NoValue
                    /\ cache[k] = PrecompileExecute(PrecompileFromBytes(cache[sib]))

\* A verified store that holds a Precompile entry.
C7_Witness ==
    /\ verify_result = "Ok"
    /\ \E k \in DOMAIN cache : k.type = "Precompile"

\* ------------------------------------------------------------------------
\* Properties of get_blob
\* ------------------------------------------------------------------------
\* C8 (as claimed): the in-memory get_blob accepts the commitment fetched
\* under (blob_hash, Sha256) whenever sha256(commitment) agrees with
\* blob_hash on bytes 1..31, whatever byte 0 of blob_hash is.
C8_VersionedHashAccepted ==
    (bp_variant = "InMemory" /\ Len(bp_commitment) = 48
        /\ sha256(bp_commitment).body = bp_req.hash.body)
    => bp_status # "panic_assert"

\* The channel operations of one successful get_blob, in order.
ExpectedOps ==
    LET c == bp_oracle[[type |-> "Sha256", body |-> bp_req.hash.body]]
    IN  <<[op |-> "hint_write",
           hint |-> [type |-> "L1Blob",
                     data |-> <<bp_req.hash>> \o U64BE(bp_req.index)
                                \o U64BE(bp_req.timestamp)]],
          [op |-> "get_exact",
           key |-> [type |-> "Sha256", body |-> bp_req.hash.body], len |-> 48]>>
        \o [i \in 1..FIELD_ELEMENTS_PER_BLOB |->
              [op |-> "get_exact",
               key |-> [type |-> "Blob",
                        body |-> keccak256(c \o Bytes(24, 0) \o U64BE(i - 1)).body],
               len |-> 32]]

\* C9: with the caching oracle, the operations performed are always the
\* first ones of: the L1Blob hint write, get_exact of (blob_hash, Sha256)
\* into 48 bytes, get_exact of the Blob keys i = 0, 1, .. into 32 bytes; a
\* successful call has performed all of them, and a call that failed stopped
\* at the operation that failed.
C9_CachingOpSequence ==
    bp_variant = "Caching" =>
        /\ Len(bp_ops) >= 1 =>
              bp_ops[1] = [op |-> "hint_write",
                           hint |-> [type |-> "L1Blob",
                                     data |-> <<bp_req.hash>> \o U64BE(bp_req.index)
                                                \o U64BE(bp_req.timestamp)]]
        /\ Len(bp_ops) >= 2 =>
              bp_ops[2] = [op |-> "get_exact",
                           key |-> [type |-> "Sha256", body |-> bp_req.hash.body],
                           len |-> 48]
        /\ Len(bp_ops) >= 3 =>
              /\ Len(bp_ops) <= FIELD_ELEMENTS_PER_BLOB + 2
              /\ bp_ops = SubSeq(ExpectedOps, 1, Len(bp_ops))
        /\ bp_status = "Ok" => Len(bp_ops) = FIELD_ELEMENTS_PER_BLOB + 2
        /\ bp_status = "Err" =>
              /\ bp_pc = "done"
              /\ Len(bp_ops) >= 1
              /\ Len(bp_ops) >= 2 =>
                    LET last == bp_ops[Len(bp_ops)]
                    IN  \/ last.key \notin DOMAIN bp_oracle
                        \/ Len(bp_oracle[last.key]) # last.len
        /\ bp_status \in {"Ok", "Err"} \/ bp_status = "running"

\* A successful get_blob through the caching oracle.
C9_Witness ==
    /\ bp_variant = "Caching"
    /\ bp_status = "Ok"
    /\ Len(bp_ops) = FIELD_ELEMENTS_PER_BLOB + 2

\* C10: in both variants the blob returned holds, at bytes [32i, 32i+32),
\* the oracle's answer for (keccak256(commitment || 24 zero bytes ||
\* u64_be(i)), Blob), commitment being the answer for (blob_hash, Sha256);
\* the slots were written once each, in the order 0, 1, ..
C10_BlobAssembled ==
    bp_status = "Ok" =>
        LET c == bp_oracle[[type |-> "Sha256", body |-> bp_req.hash.body]]
        IN  /\ Len(bp_blob) = 32 * FIELD_ELEMENTS_PER_BLOB
            /\ \A i \in 0..(FIELD_ELEMENTS_PER_BLOB - 1) :
                  /\ SubSeq(bp_blob, 32 * i + 1, 32 * i + 32) =
                        bp_oracle[[type |-> "Blob",
                                   body |-> keccak256(c \o Bytes(24, 0) \o U64BE(i)).body]]
                  /\ SubSeq(bp_field_element_key, 49, 72) = Bytes(24, 0)
            /\ bp_written = [i \in 1..FIELD_ELEMENTS_PER_BLOB |-> i - 1]

\* A blob returned by the in-memory variant whose elements are not all equal.
C10_Witness ==
    /\ bp_status = "Ok"
    /\ bp_variant = "InMemory"
    /\ SubSeq(bp_blob, 1, 32) # SubSeq(bp_blob, 33, 64)

\* C11: in ZKVM mode no hint reaches a channel.  Every write through
\* NoopHintWriter or through InMemoryOracle returns Ok, the log of channel
\* operations holds no hint write, and the operations of the in-memory
\* get_blob are oracle reads only.
C11_NoHintInZkvm ==
    bp_variant = "InMemory" =>
        /\ \A k \in 1..Len(bp_ops) : bp_ops[k].op = "get_exact"
        /\ bp_hint_ret # NoValue => bp_hint_ret.ret = "Ok"

\* The in-memory get_blob has returned the blob, a hint was written through
\* NoopHintWriter meanwhile, and the log holds the reads of the call only.
C11_Witness ==
    /\ bp_variant = "InMemory"
    /\ bp_status = "Ok"
    /\ bp_hint_ret # NoValue
    /\ bp_hint_ret.writer = "NoopHintWriter"
    /\ Len(bp_ops) = 1 + FIELD_ELEMENTS_PER_BLOB

\* C12: get_exact returns Ok exactly when the key is present and the buffer
\* has the length of the stored value, and the buffer then holds the stored
\* value; an absent key is an Err and a length mismatch a panic of
\* copy_from_slice, never Ok with a partly filled buffer.  get on an absent
\* key is an Err, on a present key the stored value.  Neither modifies the
\* store.
C12_GetExactAllOrNothing ==
    /\ [](last_read # NoValue =>
            LET k == last_read.key
                present == k \in DOMAIN cache
            IN  IF last_read.op = "get_exact"
                THEN /\ last_read.status = "Ok" <=>
                            (present /\ Len(cache[k]) = last_read.buflen)
                     /\ last_read.status = "Ok" => last_read.value = cache[k]
                     /\ ~present => last_read.status = "Err"
                     /\ (present /\ Len(cache[k]) # last_read.buflen) =>
                            last_read.status = "panic"
                     /\ last_read.status # "Ok" => zk_pc = "panic"
                ELSE /\ last_read.status = "Ok" <=> present
                     /\ present => last_read.value = cache[k]
                     /\ ~present => (last_read.status = "Err" /\ zk_pc = "panic"))
    /\ [][(ZkOracleGet \/ ZkOracleGetExact) => cache' = cache]_vars

\* get_exact met a stored value longer than the buffer.
C12_Witness ==
    /\ last_read # NoValue
    /\ last_read.op = "get_exact"
    /\ last_read.key \in DOMAIN cache
    /\ Len(cache[last_read.key]) > last_read.buflen
    /\ last_read.status = "panic"

NoSystemDepositExecuted ==
    \A k \in 1..Len(ex_executed) :
        ~(ex_executed[k].type = "Deposit" /\ ex_executed[k].is_system_transaction)

AsksMoreThanRemaining ==
    /\ ex_pc = "loop"
    /\ ex_i <= Len(ex_transactions)
    /\ ex_cumulative_gas_used <= ex_payload.gas_limit[1]
    /\ ex_transactions[ex_i].gas_limit > ex_payload.gas_limit[1] - ex_cumulative_gas_used

ExPhase ==
    IF ex_pc = "loop" THEN <<"Executing", ex_i - 1>>
    ELSE IF ex_status = "Ok" THEN <<"Sealed">>
    ELSE IF ex_status \in {"Err", "panic"} THEN <<"Failed">>
    ELSE <<"Fresh">>

\* A step inside one call, or the start of a call on a fresh or sealed
\* executor, or a failure.
LegalPhaseStep ==
    LET p == ExPhase
        q == ExPhase'
    IN  \/ q = p
        \/ q = <<"Failed">>
        \/ p \in {<<"Fresh">>, <<"Sealed">>} /\ q = <<"Executing", 0>>
        \/ p[1] = "Executing" /\ q = <<"Executing", p[2] + 1>>
               /\ p[2] < Len(ex_transactions)
        \/ p = <<"Executing", Len(ex_transactions)>> /\ q = <<"Sealed">>

\* C15: the executor moves Fresh -> Executing(0) -> ... -> Executing(n) ->
\* Sealed only, and once a call of execute_payload has failed it is
\* poisoned: no later execute_payload runs and no later compute_output_root
\* returns Ok.
C15_PoisonedAfterFailure ==
    /\ [][LegalPhaseStep]_vars
    /\ [](ex_failed =>
            /\ ex_status \notin {"running", "Ok"}
            /\ ex_output # NoValue => ~ex_output.result.ok)

\* C15 as amended: inside a call the phases follow in order, a call starts
\* on a fresh, a sealed or a failed executor, and a failed call leaves the
\* parent header (and the header last returned) as they were.
C15_OrderedAndFailureKeepsParent ==
    /\ [][LegalPhaseStep \/ (ExPhase = <<"Failed">> /\ ExPhase' = <<"Executing", 0>>
                                /\ ex_status = "Err")]_vars
    /\ [][ex_status' = "Err" =>
            (ex_parent' = ex_parent /\ ex_returned' = ex_returned)]_vars

\* A call has sealed a header on an executor whose earlier call had failed.
C15_Witness ==
    /\ ex_failed
    /\ ex_status = "Ok"
    /\ ex_calls = 2
    /\ ex_parent.header.number = GenesisHeader.number + 1

\* C16: the header a successful execute_payload returns is the new parent
\* header: number = previous number + 1, parent_hash = hash of the previous
\* parent, timestamp, beneficiary, mix_hash and parent beacon root from the
\* payload, and its seal is the hash of the header; after k successful calls
\* in a row the number has advanced by k.
C16_ReturnedHeaderIsNewParent ==
    /\ [][(ex_status = "running" /\ ex_status' = "Ok") =>
            /\ ex_returned' = ex_parent'
            /\ ex_parent'.header.number = ex_parent.header.number + 1
            /\ ex_parent'.header.parent_hash = ex_parent.seal
            /\ ex_parent'.header.timestamp = ex_payload.timestamp
            /\ ex_parent'.header.beneficiary = ex_payload.fee_recipient
            /\ ex_parent'.header.mix_hash = ex_payload.prev_randao
            /\ ex_parent'.header.parent_beacon_block_root
                    = ex_payload.parent_beacon_block_root
            /\ ex_parent'.seal = hash_slow(ex_parent'.header)
            /\ ex_prev_parent = ex_parent]_vars
    /\ []((ex_pc = "idle" /\ ex_status = "Ok" /\ ~ex_failed) =>
            /\ ex_parent.header.number = GenesisHeader.number + ex_calls
            /\ ex_parent.header.parent_hash = ex_prev_parent.seal
            /\ ex_parent.seal # ex_prev_parent.seal)

\* Two calls in a row have succeeded.
C16_Witness ==
    /\ ex_pc = "idle"
    /\ ex_status = "Ok"
    /\ ~ex_failed
    /\ ex_calls = 2
    /\ ex_returned = ex_parent
    /\ ex_parent.header.parent_hash = ex_prev_parent.seal

C18_OutputRoot ==
    ex_output # NoValue =>
        LET o == ex_output
            cached == o.cached
            zeros == [i \in 1..32 |-> 0]
            root(storage_root) ==
                keccak256(zeros \o ex_parent.header.state_root \o storage_root
                            \o <<ex_parent.seal>>)
        IN  /\ o.parent = ex_parent
            /\ ex_status = "Ok" => ex_parent = ex_returned
            /\ IF cached # <<>>
               THEN IF cached[1].blinded
                    THEN o.result = [ok |-> TRUE, value |-> root(cached[1].commitment)]
                    ELSE ~o.result.ok
               ELSE IF o.account.kind = "Some"
                    THEN o.result = [ok |-> TRUE, value |-> root(o.account.storage_root)]
                    ELSE ~o.result.ok

\* The output root was computed after a successful call, with the storage
\* root read from the trie account.
C18_Witness ==
    /\ ex_output # NoValue
    /\ ex_status = "Ok"
    /\ ex_output.cached = <<>>
    /\ ex_output.result.ok
    /\ ex_parent.header.state_root \in StateRoots


\* ------------------------------------------------------------------------
\* Properties of the zkVM client's epilogue
\* ------------------------------------------------------------------------
\* C20: in the zkVM client a computed block number or output root that
\* differs from the boot claim ends the program in a graceful exit with
\* code 1, not in the panic an internal error ends in; and the program
\* finishes normally only if the number equals l2_claim_block and the output
\* root equals l2_claim.
C20_MismatchIsGracefulExit ==
    /\ (/\ zk_out # NoValue
        /\ zk_pc # "epilogue"
        /\ \/ zk_out.number # ZkBoot.l2_claim_block
           \/ zk_out.output_root # ZkBoot.l2_claim) => zk_pc # "panic"
    /\ (zk_pc = "done" /\ zk_out # NoValue) =>
           /\ zk_out.number = ZkBoot.l2_claim_block
           /\ zk_out.output_root = ZkBoot.l2_claim

\* ------------------------------------------------------------------------
\* Properties of CalldataSource
\* ------------------------------------------------------------------------
\* Whether the transaction is one of the batcher's: a Legacy, EIP-2930 or
\* EIP-1559 call of the batch inbox whose signature recovers the batcher.
IsBatcherTx(tx) ==
    /\ tx.type \in {"Legacy", "Eip2930", "Eip1559"}
    /\ tx.to = TxKindCall(batch_inbox_address)
    /\ tx.signed_by = signer

\* The inputs of the batcher's transactions of the block, in block order.
BatcherInputs ==
    LET batch == SelectSeq(cd_txs, IsBatcherTx)
    IN  [k \in 1..Len(batch) |-> batch[k].input]

\* C21: once the data is loaded, what next() has yielded followed by what is
\* still queued is exactly the inputs of the batcher's transactions (Legacy,
\* EIP-2930 or EIP-1559 calls of the batch inbox signed by the batcher), in
\* block order and each once; the last call has answered with an item or,
\* only after the last item, with Eof: no other transaction yields an item
\* or an error.
C21_CalldataFilter ==
    cd_self.open =>
        /\ cd_yielded \o cd_self.calldata = BatcherInputs
        /\ \/ cd_last.ok
           \/ /\ cd_last.err.error = "Eof"
              /\ cd_yielded = BatcherInputs

\* A block with a batcher transaction between two that are skipped, read
\* to its end.
C21_Witness ==
    /\ cd_self.open
    /\ Len(cd_txs) = 3
    /\ ~IsBatcherTx(cd_txs[1])
    /\ IsBatcherTx(cd_txs[2])
    /\ cd_txs[3].signed_by = "nobody"
    /\ cd_yielded = <<cd_txs[2].input>>
    /\ ~cd_last.ok

\* C22: a call of next() during which the chain provider fails returns a
\* temporary Provider error and leaves the source closed with its queue
\* unchanged; the provider is asked again by the next call, and once a load
\* has succeeded the source yields the same items in the same order as
\* without a failure.  Every error next() returns is temporary.
C22_ProviderFailureIsTemporary ==
    /\ [][cd_failures' # cd_failures =>
             /\ cd_last' = [ok |-> FALSE, err |-> temp("Provider")]
             /\ ~cd_self.open
             /\ cd_self' = cd_self
             /\ cd_yielded' = cd_yielded]_vars
    /\ [][(~cd_self.open /\ cd_self'.open) =>
             cd_yielded' \o cd_self'.calldata = BatcherInputs]_vars
    /\ []((cd_self.open /\ cd_failures > 0) =>
             cd_yielded \o cd_self.calldata = BatcherInputs)
    /\ []((cd_last # NoValue /\ ~cd_last.ok) => cd_last.err.severity = "Temporary")

\* Two failed loads, then a load that succeeds and two items yielded.
C22_Witness ==
    /\ cd_failures = 2
    /\ cd_self.open
    /\ Len(cd_yielded) = 2
    /\ cd_last.ok

\* ------------------------------------------------------------------------
\* Properties of the host
\* ------------------------------------------------------------------------
\* C23: a panic raised inside PreimageServer::start is caught and turned
\* into an error result, in the server started by
\* start_native_preimage_server and in the one started by start_server: it
\* never unwinds out of the function that started the server.
C23_ServerPanicIsCaught ==
    hs_start = "panic" =>
        /\ hs_pc # "unwound"
        /\ hs_server_task.kind # "panicked"
        /\ hs_mode = "server" => (hs_ret # NoValue /\ ~hs_ret.ok)
        /\ hs_mode = "native" => (hs_server_task.kind = "returned"
                                  /\ ~hs_server_task.value.ok)

\* C24: start_server_and_native_client returns Ok if and only if, when
\* try_join! returns, the server task has ended without error or panic and
\* the client task has ended with a child that exited with status 0; an Err
\* it returns from try_join! is the Err of a task that has failed by then,
\* whatever the other task is doing.  The client task ends with Err without a
\* binary path, with a child that cannot be executed and with every exit
\* status other than 0, and with Ok only on status 0.
C24_OkIffBothTasksSucceed ==
    /\ (hs_mode = "native" /\ hs_pc = "returned") =>
          /\ hs_ret.ok <=> /\ hs_seen # NoValue
                           /\ hs_seen.server = Returned(HsOk)
                           /\ hs_seen.program = Returned(HsOk)
          /\ hs_ret.ok => (hs_start = "Ok" /\ hs_status = <<[code |-> <<0>>]>>)
          /\ (hs_seen # NoValue /\ ~hs_ret.ok) =>
                \E t \in {hs_seen.server, hs_seen.program} :
                   HsEnded(t) /\ flatten_join_result(t) = hs_ret
    /\ hs_program_task = Returned(HsOk) =>
          (hs_exec # <<>> /\ hs_status = <<[code |-> <<0>>]>>)
    /\ (hs_status # <<>> /\ hs_status # <<[code |-> <<0>>]>>) =>
          (hs_program_task.kind = "returned" /\ ~hs_program_task.value.ok)
    /\ (hs_exec = <<>> /\ HsEnded(hs_program_task)) =>
          (hs_program_task.kind = "returned" /\ ~hs_program_task.value.ok)

\* The child exits with the mismatch code 1 while the server is still
\* running, and try_join! returns its error without waiting for the server.
C24_Witness ==
    /\ hs_pc = "returned"
    /\ hs_seen # NoValue
    /\ hs_seen.server = TaskIn("running")
    /\ hs_status = <<[code |-> <<1>>]>>
    /\ hs_ret = HsErr("Client program exited with a non-zero status.")

\* ------------------------------------------------------------------------
\* Determinism of InMemoryOracle::verify
\* ------------------------------------------------------------------------
\* C25: two runs on the same inputs reach the same result: whether verify()
\* succeeds or fails does not depend on the order in which the entries of
\* the map are iterated, so once verify() has ended in one run, it ends the
\* same way (success, or failure) under every other iteration order of the
\* same store.
C25_VerifyOrderIndependent ==
    verify_result # "none" =>
        \A order \in IterationOrders(DOMAIN cache) :
            (VerifyInOrder(cache, <<>>, order) = "Ok") <=> (verify_result = "Ok")

\* ------------------------------------------------------------------------
\* Properties of the block executor: errors, receipts and Cancun fields
\* ------------------------------------------------------------------------
\* C26: execute_payload called with payload attributes without gas_limit
\* returns Err, it does not panic, and leaves the parent header unchanged;
\* more generally no failure of execute_payload is a panic.
C26_MissingGasLimitIsErr ==
    /\ (ex_payload # NoValue /\ ~IsSome(ex_payload.gas_limit)) =>
          (ex_status = "Err" /\ ex_parent = ex_prev_parent)
    /\ ex_status # "panic"

\* The step in which execute_payload seals the block and returns Ok
ExSealed == ex_pc = "loop" /\ ex_status' = "Ok"

\* The receipt as the receipts root hashes it: without the deposit nonce if
\* strip holds and the receipt is a deposit receipt
HashedReceipt(receipt, strip) ==
    IF strip /\ receipt.type = "Deposit"
    THEN [type |-> receipt.type,
          cumulative_gas_used |-> receipt.cumulative_gas_used,
          logs |-> receipt.logs,
          deposit_nonce |-> <<>>,
          deposit_receipt_version |-> receipt.deposit_receipt_version]
    ELSE receipt

\* C27: the receipts root of the sealed header is the ordered trie root of
\* the encoded receipts, in their order, where exactly the deposit
\* receipts have their deposit nonce removed if and only if Regolith is
\* active and Canyon is not; the logs bloom is the one of the logs of the
\* unmodified receipts.
C27_ReceiptsRootStripsNonce ==
    [][ExSealed =>
        LET strip == /\ is_regolith_active(ex_config, ex_payload.timestamp)
                     /\ ~is_canyon_active(ex_config, ex_payload.timestamp)
        IN  /\ ex_parent'.header.receipts_root
                 = <<"ordered_trie_root",
                     [k \in 1..Len(ex_receipts) |->
                         <<"eip2718", HashedReceipt(ex_receipts[k], strip)>>]>>
            /\ ex_parent'.header.logs_bloom
                 = <<"logs_bloom", [k \in 1..Len(ex_receipts) |-> [transaction |-> k]]>>]_vars

\* A block with a deposit receipt and a legacy receipt has been sealed with
\* Regolith active and Canyon not: the deposit receipt was hashed without a
\* nonce.
C27_Witness ==
    /\ ex_status = "Ok"
    /\ ex_pc = "idle"
    /\ ex_calls = 1
    /\ ex_config = ForkTimes(<<0>>, <<>>, <<>>)
    /\ ex_parent.header.receipts_root
          = <<"ordered_trie_root",
              <<<<"eip2718", [type |-> "Deposit", cumulative_gas_used |-> 1,
                              logs |-> <<[transaction |-> 1]>>,
                              deposit_nonce |-> <<>>,
                              deposit_receipt_version |-> <<>>]>>,
                <<"eip2718", [type |-> "Legacy", cumulative_gas_used |-> 2,
                              logs |-> <<[transaction |-> 2]>>,
                              deposit_nonce |-> <<>>,
                              deposit_receipt_version |-> <<>>]>>>>>>
    /\ ex_parent.header.logs_bloom
          = <<"logs_bloom", <<[transaction |-> 1], [transaction |-> 2]>>>>
\* C28: a receipt carries a deposit nonce exactly if its transaction is a
\* deposit and Regolith is active, the nonce is the one the depositor
\* account had before the transaction ran, the deposit receipt version is
\* 1 exactly if in addition Canyon is active; every deposit receipt after
\* Regolith has a nonce, also when loading the depositor account failed.
C28_DepositReceiptHasNonce ==
    \A k \in 1..Len(ex_receipts) :
        LET post == /\ ex_executed[k].type = "Deposit"
                    /\ is_regolith_active(ex_config, ex_payload.timestamp)
        IN  /\ IsSome(ex_receipts[k].deposit_nonce) <=> post
            /\ post /\ ex_loaded[k].ok /\ IsSome(ex_loaded[k].info)
                  => ex_receipts[k].deposit_nonce = <<ex_loaded[k].info[1].nonce>>
            /\ ex_receipts[k].deposit_receipt_version
                  = IF post /\ is_canyon_active(ex_config, ex_payload.timestamp)
                    THEN <<1>> ELSE <<>>

\* C29: the sealed header has blob_gas_used and excess_blob_gas exactly if
\* Ecotone is active at the payload's timestamp; blob_gas_used is then 0 and
\* excess_blob_gas is the excess computed from the parent's two fields if
\* Ecotone was active at the parent's timestamp, and 0 for the first block
\* after the fork.
C29_CancunFieldsAfterEcotone ==
    [][ExSealed =>
        LET ecotone == /\ ex_config.ecotone_time # <<>>
                       /\ ex_payload.timestamp >= ex_config.ecotone_time[1]
            parent_ecotone == /\ ex_config.ecotone_time # <<>>
                              /\ ex_parent.header.timestamp >= ex_config.ecotone_time[1]
            sum == ex_parent.header.excess_blob_gas[1] + ex_parent.header.blob_gas_used[1]
            header == ex_parent'.header
        IN  /\ (header.blob_gas_used # <<>>) <=> ecotone
            /\ (header.excess_blob_gas # <<>>) <=> ecotone
            /\ ecotone => header.blob_gas_used = <<0>>
            /\ ecotone /\ parent_ecotone
                  => header.excess_blob_gas
                        = <<IF sum > 393216 THEN sum - 393216 ELSE 0>>
            /\ ecotone /\ ~parent_ecotone => header.excess_blob_gas = <<0>>]_vars

\* A block was sealed on a parent of the Ecotone chain whose excess blob gas
\* was 7 above the target: its header has blob_gas_used 0 and the excess 7.
C29_Witness ==
    /\ ex_status = "Ok"
    /\ ex_pc = "idle"
    /\ ex_calls = 1
    /\ ex_prev_parent = seal_slow(EcotoneGenesisHeader)
    /\ ex_config.ecotone_time = <<0>>
    /\ ex_parent.header.blob_gas_used = <<0>>
    /\ ex_parent.header.excess_blob_gas = <<7>>
\* ------------------------------------------------------------------------
\* Properties of the caching oracle
\* ------------------------------------------------------------------------
\* The number of the last call of get that inserted or read key, 0 if none.
LastTouch(log, key) ==
    LET touches == {i \in DOMAIN log : log[i].key = key /\ log[i].outcome # "error"}
    IN  IF touches = {} THEN 0 ELSE CHOOSE i \in touches : \A j \in touches : j <= i

\* C30: the cache never holds more than ORACLE_LRU_SIZE entries (one per
\* key); a hit returns the cached bytes, sends nothing to the oracle and
\* evicts nothing; a miss inserts the key, and if the cache was full evicts
\* exactly the key whose last insertion or read is the oldest.
C30_LruOfFixedCapacity ==
    /\ [](/\ Len(lru_cache) <= ORACLE_LRU_SIZE
          /\ Cardinality(CachedKeys(lru_cache)) = Len(lru_cache))
    /\ [][lru_log' # lru_log =>
            LET call == lru_log'[Len(lru_log')]
                before == CachedKeys(lru_cache)
                after == CachedKeys(lru_cache')
            IN  /\ (call.outcome = "hit") <=> (call.key \in before)
                /\ call.outcome = "hit" =>
                      /\ after = before
                      /\ lru_reads' = lru_reads
                      /\ lru_last' = [ok |-> TRUE, value |-> <<call.key, call.key>>]
                /\ call.outcome = "error" => after = before
                /\ call.outcome = "miss" =>
                      IF Cardinality(before) < ORACLE_LRU_SIZE
                      THEN after = before \cup {call.key}
                      ELSE \E victim \in before :
                              /\ after = (before \ {victim}) \cup {call.key}
                              /\ \A k \in before :
                                    LastTouch(lru_log, victim) <= LastTouch(lru_log, k)]_vars

\* Key 1 was inserted first and read again after key 2 was inserted; the
\* insertion of key 3 into the full cache has evicted key 2.
C30_Witness ==
    /\ lru_log = <<[key |-> 1, outcome |-> "miss"], [key |-> 2, outcome |-> "miss"],
                   [key |-> 1, outcome |-> "hit"], [key |-> 3, outcome |-> "miss"]>>
    /\ CachedKeys(lru_cache) = {1, 3}
    /\ lru_reads = 3
\* C31: no key has more than one request in flight; a request is sent only
\* for a key that is neither cached nor being fetched; a caller that finds
\* its key being fetched waits, and once that fetch has filled the cache it
\* returns the cached bytes without a request of its own.
C31_SingleFlightPerKey ==
    /\ [](sf_pc = "ready" => \A k \in LruKeys : sf_inflight[k] <= 1)
    /\ [][sf_pc = "ready" =>
            \A k \in LruKeys :
                sf_inflight'[k] > sf_inflight[k]
                   => sf_inflight[k] = 0 /\ k \notin CachedKeys(sf_cache)]_vars
    /\ [][sf_pc = "ready" =>
            \A c \in Callers :
                (/\ sf_callers[c].pc = "waiting"
                 /\ sf_callers'[c].pc = "idle")
                   => /\ sf_callers[c].key \in CachedKeys(sf_cache)
                      /\ sf_inflight' = sf_inflight
                      /\ sf_last' = [caller |-> c, key |-> sf_callers[c].key,
                                     outcome |-> "hit",
                                     value |-> <<sf_callers[c].key, sf_callers[c].key>>,
                                     waited |-> TRUE]]_vars

\* Caller 2 asked for key 1 while caller 1 was fetching it, waited, and has
\* returned the cached bytes after the fetch: one request, two calls.
C31_Witness ==
    /\ sf_pc = "ready"
    /\ sf_calls = 2
    /\ sf_last = [caller |-> 2, key |-> 1, outcome |-> "hit", value |-> <<1, 1>>,
                  waited |-> TRUE]
    /\ CachedKeys(sf_cache) = {1}
    /\ \A c \in Callers : sf_callers[c].pc = "idle"
\* The sum of the first k elements of a sequence of numbers
RECURSIVE SumUpTo(_, _)
SumUpTo(gas, k) == IF k = 0 THEN 0 ELSE SumUpTo(gas, k - 1) + gas[k]

\* C32: while a call runs there is one receipt per executed transaction, in
\* payload order, of the type of the transaction, holding the sum of the
\* gas used so far (so the values do not decrease); when the call seals,
\* there is a receipt for every payload transaction, the receipts root is
\* the root of exactly these receipts and gas_used of the header is the
\* value of the last receipt, 0 for an empty block.
C32_OneReceiptPerTransaction ==
    /\ [](/\ Len(ex_receipts) = Len(ex_executed)
          /\ \A k \in 1..Len(ex_receipts) :
                /\ ex_executed[k] = ex_payload.transactions[k]
                /\ ex_receipts[k].type = ex_payload.transactions[k].type
                /\ ex_receipts[k].cumulative_gas_used = SumUpTo(ex_gas, k)
                /\ k > 1 => ex_receipts[k].cumulative_gas_used
                               >= ex_receipts[k - 1].cumulative_gas_used)
    /\ [][ExSealed =>
            /\ Len(ex_receipts) = Len(ex_payload.transactions)
            /\ Len(ex_parent'.header.receipts_root[2]) = Len(ex_receipts)
            /\ \A k \in 1..Len(ex_receipts) :
                  ex_parent'.header.receipts_root[2][k][2].cumulative_gas_used
                     = ex_receipts[k].cumulative_gas_used
            /\ ex_parent'.header.gas_used
                  = IF ex_receipts = <<>> THEN 0
                    ELSE ex_receipts[Len(ex_receipts)].cumulative_gas_used]_vars

\* A block of a legacy and an EIP-1559 transaction that used 1 gas each has
\* been sealed: the receipts hold 1 and 2, the header 2.
C32_Witness ==
    /\ ex_status = "Ok"
    /\ ex_pc = "idle"
    /\ ex_parent.header.gas_used = 2
    /\ Len(ex_parent.header.receipts_root[2]) = 2
    /\ ex_parent.header.receipts_root[2][1][2].type = "Legacy"
    /\ ex_parent.header.receipts_root[2][1][2].cumulative_gas_used = 1
    /\ ex_parent.header.receipts_root[2][2][2].type = "Eip1559"
    /\ ex_parent.header.receipts_root[2][2][2].cumulative_gas_used = 2
\* ------------------------------------------------------------------------
\* More properties of InMemoryOracle::verify
\* ------------------------------------------------------------------------
\* The key of the Keccak256 entry that names the slot of a Blob entry
SiblingKey(key) == [type |-> "Keccak256", body |-> key.body]

\* Two Blob entries of the store name the same slot (same commitment, same
\* index below 128) and both hold 32 bytes that are not all zero
SlotClaimedTwice(c) ==
    \E k1, k2 \in DOMAIN c :
        /\ k1 # k2
        /\ k1.type = "Blob" /\ k2.type = "Blob"
        /\ SiblingKey(k1) \in DOMAIN c /\ SiblingKey(k2) \in DOMAIN c
        /\ Len(c[SiblingKey(k1)]) = 80 /\ Len(c[SiblingKey(k2)]) = 80
        /\ SubSeq(c[SiblingKey(k1)], 1, 48) = SubSeq(c[SiblingKey(k2)], 1, 48)
        /\ SubSeq(c[SiblingKey(k1)], 73, 80) = SubSeq(c[SiblingKey(k2)], 73, 80)
        /\ c[SiblingKey(k1)][79] = 0 /\ c[SiblingKey(k1)][80] < 128
        /\ Len(c[k1]) = 32 /\ Len(c[k2]) = 32
        /\ \E i \in 1..32 : c[k1][i] # 0
        /\ \E i \in 1..32 : c[k2][i] # 0

\* C33: verify() does not succeed on a store in which a Blob entry finds
\* its slot already holding non-zero data, nor on a store with a Blob entry
\* whose Keccak256 sibling is missing.
C33_OccupiedSlotFails ==
    verify_result = "Ok" =>
        /\ ~SlotClaimedTwice(cache)
        /\ \A key \in DOMAIN cache :
              key.type = "Blob" => SiblingKey(key) \in DOMAIN cache
\* C34: verify() never succeeds on a store with a GlobalGeneric entry: the
\* scan ends in a failure when it reaches that entry, if it has not failed
\* before; and the scan never fails at a Local entry.
C34_GlobalGenericFails ==
    /\ [](verify_result = "Ok" => \A key \in DOMAIN cache : key.type # "GlobalGeneric")
    /\ [][zk_pc = "verify" =>
            \A key \in pending \ pending' :
                /\ key.type = "GlobalGeneric" => verify_result' \in {"Err", "panic"}
                /\ key.type = "Local" =>
                      (zk_pc' = "verify" /\ verify_result' = verify_result)]_vars

\* The scan of a store with a Local and a GlobalGeneric entry, and nothing
\* else that has been looked at, has passed the Local entry and failed.
C34_Witness ==
    /\ verify_result = "panic"
    /\ \E k1, k2 \in DOMAIN cache \ pending :
          /\ k1.type = "Local"
          /\ k2.type = "GlobalGeneric"
          /\ DOMAIN cache \ pending = {k1, k2}
\* ------------------------------------------------------------------------
\* More properties of the CalldataSource
\* ------------------------------------------------------------------------
\* C35: the chain provider answers at most one call successfully; once the
\* source is open no call of next() asks it; a call on an open source with
\* a queue that is not empty yields the front item and removes it, nothing
\* else; a call on an open source with an empty queue returns the temporary
\* Eof error and leaves the source as it is.
C35_LoadsOnceThenDrains ==
    /\ [](cd_asked - cd_failures <= 1)
    /\ [](cd_self.open => cd_asked - cd_failures = 1)
    /\ [][cd_self.open =>
            /\ cd_asked' = cd_asked
            /\ cd_self'.open
            /\ IF cd_self.calldata # <<>>
               THEN /\ cd_self'.calldata = Tail(cd_self.calldata)
                    /\ cd_last' = [ok |-> TRUE, value |-> Head(cd_self.calldata)]
                    /\ cd_yielded' = Append(cd_yielded, Head(cd_self.calldata))
               ELSE /\ cd_self' = cd_self
                    /\ cd_yielded' = cd_yielded
                    /\ cd_last' = [ok |-> FALSE,
                                   err |-> [severity |-> "Temporary", error |-> "Eof"]]]_vars

\* After a failed and a successful load the two items of the block have
\* been yielded and the call after them has returned Eof.
C35_Witness ==
    /\ cd_self = [calldata |-> <<>>, open |-> TRUE]
    /\ cd_asked = 2
    /\ cd_failures = 1
    /\ Len(cd_yielded) = 2
    /\ cd_last = [ok |-> FALSE, err |-> [severity |-> "Temporary", error |-> "Eof"]]
\* ------------------------------------------------------------------------
\* More properties of StatelessL2BlockExecutor::execute_payload
\* ------------------------------------------------------------------------
\* C36: when execute_payload returns an error the parent header of the
\* TrieDB is the one from before the call, a compute_output_root after the
\* failed call is computed from that header, and the transitions of the
\* transactions executed before a failure in the loop stay in the State.
C36_FailureKeepsParentAndEffects ==
    /\ [][ex_status' = "Err" => (ex_parent' = ex_parent /\ ex_parent' = ex_prev_parent')]_vars
    /\ [][(ex_pc = "loop" /\ ex_i <= Len(ex_transactions) /\ ex_status' = "Err") =>
            ex_leftover' = ex_leftover + Len(ex_executed)]_vars
    /\ []((ex_output # NoValue /\ ex_output.after = "Err") =>
            /\ ex_output.parent = ex_prev_parent
            /\ ex_output.result.ok =>
                 ex_output.result.value
                    = keccak256(RawOutput(ex_prev_parent.header.state_root,
                                          StorageRootLookup(ex_output.cached,
                                                            ex_output.account).root,
                                          ex_prev_parent.seal)))

\* The second call failed after one transaction had been committed, and the
\* output root computed afterwards is the one of block 1.
C36_Witness ==
    /\ ex_status = "Err"
    /\ ex_calls = 2
    /\ ex_leftover = 1
    /\ ex_parent.header.number = GenesisHeader.number + 1
    /\ ex_output # NoValue
    /\ ex_output.result.ok
\* C37: a call enters the transaction loop only with every transaction of
\* the payload decoded; a call that ends with the decoding error has executed
\* and committed no transaction while the State holds the pre-block steps
\* (the beacon-root call and, on the Canyon boundary, the create2 deployer);
\* in the loop the transactions are executed in payload order, one per pass.
C37_DecodedBeforeExecuted ==
    /\ [](ex_status = "running" =>
            /\ ex_transactions = ex_payload.transactions
            /\ \A k \in 1..Len(ex_transactions) : ex_transactions[k].type # "Undecodable"
            /\ ex_executed = SubSeq(ex_payload.transactions, 1, ex_i - 1))
    /\ [][(ex_status' = "Err" /\ ex_error' = "transaction decoding failed") =>
            /\ ex_pc = "idle"
            /\ ex_leftover' = ex_leftover
            /\ ex_executed' = <<>>
            /\ "beacon_root" \in ex_pre'
            /\ IsCanyonBoundary(ex_config, 20, ex_parent.header)
                  => "create2_deployer" \in ex_pre']_vars
    /\ [][(ex_pc = "loop" /\ ex_executed' # ex_executed) =>
            \/ ex_executed' = <<>>
            \/ /\ ex_executed' = Append(ex_executed, ex_payload.transactions[ex_i])
               /\ ex_i' = ex_i + 1]_vars

\* On the Canyon boundary the first call has failed on decoding, with both
\* pre-block steps applied and no transaction committed.
C37_Witness ==
    /\ ex_status = "Err"
    /\ ex_error = "transaction decoding failed"
    /\ ex_calls = 1
    /\ ex_leftover = 0
    /\ ex_pre = {"beacon_root", "create2_deployer"}
\* C38: when a header is sealed, the excess blob gas of the BlockEnv the
\* transactions of the block were executed with is present exactly when the
\* header's excess_blob_gas is, and has the same value.
C38_EnvAndHeaderAgreeOnExcessBlobGas ==
    [][ExSealed =>
         ex_block_env.blob_excess_gas_and_price = ex_parent'.header.excess_blob_gas]_vars
\* ------------------------------------------------------------------------
\* Properties of the sync loop
\* ------------------------------------------------------------------------
\* C39: the cursor changes only in the step that follows a passed
\* validation of the popped payload, and then to the number cursor + 1;
\* derived_attributes_count is the number of payloads that passed validation
\* and bounds the number of cursor updates; a payload that fails validation
\* is dropped with cursor and counter unchanged; after an error of
\* pipeline.step() and after a failed fetch of the block info the loop goes
\* on, and sync never returns.
C39_CursorFollowsValidation ==
    /\ [](/\ sy_derived_attributes_count = sy_passed
          /\ sy_updates <= sy_derived_attributes_count
          /\ sy_pc # "returned")
    /\ [][(sy_cursor' # sy_cursor \/ sy_updates' # sy_updates) =>
            /\ sy_pc = "fetch"
            /\ sy_valid = "passed"
            /\ sy_attributes # <<>>
            /\ sy_cursor' = sy_cursor + 1
            /\ sy_updates' = sy_updates + 1]_vars
    /\ [][sy_rejected' # sy_rejected =>
            /\ sy_cursor' = sy_cursor
            /\ sy_derived_attributes_count' = sy_derived_attributes_count
            /\ sy_prepared' = sy_prepared
            /\ sy_pc' = "step"]_vars
    /\ [][sy_step_errors' # sy_step_errors => sy_pc' = "pop"]_vars
    /\ [][sy_fetch_errors' # sy_fetch_errors => sy_pc' = "step"]_vars

\* The loop has gone on after a step error, a rejected payload and a failed
\* fetch, and has then moved the cursor to block 1: two payloads passed.
C39_Witness ==
    /\ sy_step_errors = 1
    /\ sy_rejected = 1
    /\ sy_fetch_errors = 1
    /\ sy_updates = 1
    /\ sy_cursor = 1
    /\ sy_derived_attributes_count = 2
====
